---- MODULE Spec2Model ----
(***************************************************************************)
(* rlox: a single-pass bytecode compiler (src/src/compiler.rs) and a stack *)
(* virtual machine (src/src/vm.rs) for a small Lox dialect.                *)
(*                                                                         *)
(* Two specifications are defined.                                         *)
(*   Spec    the pipeline of VM::interpret: a source text is compiled one  *)
(*           declaration at a time and the resulting script is run.        *)
(*   SpecVM  VM::run over a chunk, one action per opcode handler; the      *)
(*           chunks are the inputs, drawn from a fixed set.                *)
(*                                                                         *)
(* Rust values are copied when cloned, and TLA+ values are copied always:  *)
(* a Closure, its Function and its Upvalue vector are values here exactly  *)
(* as in vm.rs.  Only Instance is shared (Rc<RefCell<Instance>>): an       *)
(* Instance value is an index into the heap `instances`.                   *)
(* Code offsets are 0-based as in the source; sequences are 1-based, so    *)
(* byte k of a chunk is code[k + 1].                                       *)
(***************************************************************************)
EXTENDS Integers, Sequences, FiniteSets, TLC

VARIABLES
    source,             \* the input: a source text (Spec)
    pc,                 \* position of the driver: "start", "compile", "block", "params", "body",
                        \* "compiled", "run", "done"
    compiler,           \* struct Compiler of the top-level script (with its Parser and Scanner)
    value_stack,        \* VM.value_stack
    frames,             \* VM.frames: [CallFrame; MAX_FRAMES]
    frame_count,        \* VM.frame_count
    globals,            \* VM.globals
    open_upvalue_head,  \* VM.open_upvalue_head
    instances,          \* the heap of Rc<RefCell<Instance>> cells
    stdout,             \* everything written with print!/println!
    result,             \* what interpret() returned: "none" while it has not
    steps,              \* number of instructions the dispatch loop has executed
    overflow_checks,    \* the build: TRUE = overflow checks on (debug), FALSE = wrapping (release)
    inbox,              \* rlox-lsp: the notifications the client has sent and no handler has taken
    handlers,           \* rlox-lsp: the notification handlers started, each with its await point
    docs,               \* rlox-lsp: Backend.docs, the HashMap behind the RwLock
    published,          \* rlox-lsp: the publishDiagnostics notifications sent to the client
    response            \* rlox-lsp: the result of the last documentSymbol request

\* the state of the interpreter and that of the language server
rlox_vars == <<source, pc, compiler, value_stack, frames, frame_count, globals,
               open_upvalue_head, instances, stdout, result, steps, overflow_checks>>
lsp_vars == <<inbox, handlers, docs, published, response>>
vars == <<source, pc, compiler, value_stack, frames, frame_count, globals,
          open_upvalue_head, instances, stdout, result, steps, overflow_checks,
          inbox, handlers, docs, published, response>>

-----------------------------------------------------------------------------
(* Bounds of the model.                                                    *)

\* the clock native returns one of 0..MaxClock milliseconds
MaxClock == 1
\* the dispatch loop is cut after MaxSteps instructions
MaxSteps == 400

-----------------------------------------------------------------------------
(* chunk.rs: the opcodes.                                                  *)

OP_RETURN == 0
OP_CONSTANT == 1
OP_NIL == 2
OP_TRUE == 3
OP_FALSE == 4
OP_EQUAL == 5
OP_GREATER == 6
OP_LESS == 7
OP_NEGATE == 8
OP_ADD == 9
OP_SUBTRACT == 10
OP_MULTIPLY == 11
OP_DIVIDE == 12
OP_NOT == 13
OP_PRINT == 14
OP_POP == 15
OP_DEFINE_GLOBAL == 16
OP_GET_GLOBAL == 17
OP_SET_GLOBAL == 18
OP_GET_LOCAL == 19
OP_SET_LOCAL == 20
OP_JUMP_IF_FALSE == 21
OP_JUMP == 22
OP_LOOP == 23
OP_CALL == 24
OP_CLOSURE == 25
OP_GET_UPVALUE == 26
OP_SET_UPVALUE == 27
OP_CLOSE_UPVALUE == 28
OP_CLASS == 29
OP_GET_PROPERTY == 30
OP_SET_PROPERTY == 31

\* OpCode::from_u8 is Some for these bytes and None for every other
OpCodes == 0..31

MAX_FRAMES == 64

U8 == 256
U16_MAX == 65535

\* Option<T>: None is <<>>, Some(x) is <<x>>
None == <<>>
Some(x) == <<x>>
IsSome(o) == o # <<>>
Unwrap(o) == o[1]
\* F of the value x: names the result of one step for the steps after it
Then(x, F(_)) == F(x)

\* Chunk::new
NewChunk == [code |-> <<>>, lines |-> <<>>, constants |-> <<>>]

\* Chunk::write_code
write_code(chunk, byte, line) ==
    [chunk EXCEPT !.code = Append(@, byte), !.lines = Append(@, line)]

-----------------------------------------------------------------------------
(* value.rs: the Value enum.  Every value is a record with a tag t.        *)

Nil == [t |-> "Nil"]
Boolean(b) == [t |-> "Boolean", b |-> b]
String(s) == [t |-> "String", s |-> s]
\* Value::Function(Function { arity, chunk, name, upvalue_count })
FunctionV(arity, chunk, name, upvalue_count) ==
    [t |-> "Function", arity |-> arity, chunk |-> chunk, name |-> name,
     upvalue_count |-> upvalue_count]
\* Function::new
NewFunction == FunctionV(0, NewChunk, None, 0)
NativeFunction(name, arity) == [t |-> "NativeFunction", name |-> name, arity |-> arity]
Class(name) == [t |-> "Class", name |-> name]
InstanceRef(id) == [t |-> "Instance", id |-> id]
\* the Upvalue struct that vm.rs builds: location, index, next, closed
Upvalue(location, index, next, closed) ==
    [location |-> location, index |-> index, next |-> next, closed |-> closed]
UpvalueV(u) == [t |-> "Upvalue", upvalue |-> u]
\* Closure::new: upvalue_count fresh cells
NewClosure(func) ==
    [t |-> "Closure", function |-> func,
     upvalues |-> [i \in 1..func.upvalue_count |-> Upvalue(0, 0, None, None)]]

(* Number(f64).  The payload is the rational num/den in lowest terms with  *)
(* den > 0; den = 0 stands for the non-finite values: num = 1 is inf,      *)
(* num = -1 is -inf and num = 0 is NaN.                                    *)
RECURSIVE Gcd(_, _)
Gcd(a, b) == IF b = 0 THEN a ELSE Gcd(b, a % b)
Abs(n) == IF n < 0 THEN -n ELSE n
Sgn(n) == IF n < 0 THEN -1 ELSE IF n = 0 THEN 0 ELSE 1
Ratio(num, den) ==
    IF den = 0 THEN [t |-> "Number", num |-> Sgn(num), den |-> 0]
    ELSE LET g == Gcd(Abs(num), Abs(den))
         IN  [t |-> "Number", num |-> (Sgn(den) * num) \div g, den |-> Abs(den) \div g]
Number(n) == [t |-> "Number", num |-> n, den |-> 1]
NaN == [t |-> "Number", num |-> 0, den |-> 0]
IsNaN(x) == x.den = 0 /\ x.num = 0
IsInf(x) == x.den = 0 /\ x.num # 0
\* f64 +
NumAdd(a, b) ==
    IF IsNaN(a) \/ IsNaN(b) THEN NaN
    ELSE IF IsInf(a) THEN (IF IsInf(b) /\ b.num # a.num THEN NaN ELSE a)
    ELSE IF IsInf(b) THEN b
    ELSE Ratio(a.num * b.den + b.num * a.den, a.den * b.den)
\* f64 unary -
NumNeg(a) == [a EXCEPT !.num = -@]
\* f64 -
NumSub(a, b) == NumAdd(a, NumNeg(b))
\* f64 *
NumMul(a, b) ==
    IF IsNaN(a) \/ IsNaN(b) THEN NaN
    ELSE IF IsInf(a) \/ IsInf(b)
         THEN (IF a.num = 0 \/ b.num = 0 THEN NaN ELSE Ratio(Sgn(a.num) * Sgn(b.num), 0))
    ELSE Ratio(a.num * b.num, a.den * b.den)
\* f64 /
NumDiv(a, b) ==
    IF IsNaN(a) \/ IsNaN(b) THEN NaN
    ELSE IF IsInf(a)
         THEN (IF IsInf(b) THEN NaN ELSE Ratio(a.num * (IF b.num < 0 THEN -1 ELSE 1), 0))
    ELSE IF IsInf(b) THEN Number(0)
    ELSE IF b.num = 0 THEN Ratio(a.num, 0)
    ELSE Ratio(a.num * b.den, a.den * b.num)
\* f64 <
NumLess(a, b) ==
    IF IsNaN(a) \/ IsNaN(b) THEN FALSE
    ELSE IF IsInf(a) THEN a.num < 0 /\ a # b
    ELSE IF IsInf(b) THEN b.num > 0
    ELSE a.num * b.den < b.num * a.den
\* f64 ==
NumEq(a, b) == ~IsNaN(a) /\ ~IsNaN(b) /\ a = b

\* the decimal text of an integer (format!("{}", n) for u8, usize and integral f64)
Digit(d) == <<"0", "1", "2", "3", "4", "5", "6", "7", "8", "9">>[d + 1]
RECURSIVE IntToStr(_)
IntToStr(n) ==
    IF n < 0 THEN "-" \o IntToStr(-n)
    ELSE IF n < 10 THEN Digit(n)
    ELSE IntToStr(n \div 10) \o Digit(n % 10)
\* Display of f64; a non-integral finite value is written as the fraction num/den
FormatNumber(x) ==
    IF IsNaN(x) THEN "NaN"
    ELSE IF IsInf(x) THEN (IF x.num > 0 THEN "inf" ELSE "-inf")
    ELSE IF x.den = 1 THEN IntToStr(x.num)
    ELSE IntToStr(x.num) \o "/" \o IntToStr(x.den)

\* str::split("\\n"): the pieces of s between occurrences of backslash-n
RECURSIVE SplitBackslashN(_, _)
SplitBackslashN(s, acc) ==
    IF Len(s) = 0 THEN <<acc>>
    ELSE IF Len(s) >= 2 /\ SubSeq(s, 1, 2) = "\\n"
         THEN <<acc>> \o SplitBackslashN(SubSeq(s, 3, Len(s)), "")
    ELSE SplitBackslashN(SubSeq(s, 2, Len(s)), acc \o SubSeq(s, 1, 1))

-----------------------------------------------------------------------------
(* vm.rs: struct VM as one record, so that a handler is an operator from   *)
(* the VM before an instruction to the VM after it.  result is "none"      *)
(* while run() has not returned; "Panic" stands for a Rust panic (index    *)
(* out of bounds, unwrap of None, todo!, arithmetic overflow in a build    *)
(* with overflow checks), which ends the process.                          *)

VM ==
    [value_stack |-> value_stack, frames |-> frames, frame_count |-> frame_count,
     globals |-> globals, open_upvalue_head |-> open_upvalue_head,
     instances |-> instances, stdout |-> stdout, result |-> result]

Panic(vm) == [vm EXCEPT !.result = "Panic"]
Return(vm, r) == [vm EXCEPT !.result = r]

\* impl ValueStack for Vec<Value>
size(vm) == Len(vm.value_stack)
push(vm, value) == [vm EXCEPT !.value_stack = Append(@, value)]
\* the Option that pop() and last_value() return
last_value(vm) == IF size(vm) = 0 THEN None ELSE Some(vm.value_stack[size(vm)])
\* the stack after pop()
pop(vm) ==
    IF size(vm) = 0 THEN vm
    ELSE [vm EXCEPT !.value_stack = SubSeq(@, 1, Len(@) - 1)]
\* self[index] panics unless index < len
InBounds(vm, index) == index >= 0 /\ index < size(vm)
get_value_at_idx(vm, index) == vm.value_stack[index + 1]
set_value_at_idx(vm, index, value) == [vm EXCEPT !.value_stack[index + 1] = value]
\* peek(distance) is self[len - 1 - distance]: the subtraction underflows,
\* or the index is out of bounds, unless distance < len
CanPeek(vm, distance) == distance < size(vm)
peek(vm, distance) == vm.value_stack[size(vm) - distance]

\* VM::is_falsey
is_falsey(value) ==
    IF value.t = "Nil" THEN TRUE
    ELSE IF value.t = "Boolean" THEN ~value.b
    ELSE FALSE

\* the lines println! writes for print_value(value)
PrintLine(text) == [kind |-> "print", text |-> text]
print_value_lines(vm, value) ==
    CASE value.t = "String" ->
            LET pieces == SplitBackslashN(value.s, "")
            IN  [i \in 1..Len(pieces) |-> PrintLine(pieces[i])]
      [] value.t = "Number" -> <<PrintLine(FormatNumber(value))>>
      [] value.t = "Boolean" -> <<PrintLine(IF value.b THEN "true" ELSE "false")>>
      [] value.t = "Nil" -> <<PrintLine("nil")>>
      [] value.t = "Function" ->
            IF IsSome(value.name) THEN <<PrintLine("<fn " \o Unwrap(value.name) \o ">")>>
            ELSE <<PrintLine("<script>")>>
      [] value.t = "NativeFunction" -> <<PrintLine("<native fn>")>>
      [] value.t = "Closure" ->
            IF IsSome(value.function.name)
            THEN <<PrintLine("<closure " \o Unwrap(value.function.name) \o ">")>>
            ELSE <<PrintLine("<closure>")>>
      [] value.t = "Upvalue" -> <<[kind |-> "print_debug", args |-> <<value.upvalue>>]>>
      [] value.t = "Class" -> <<PrintLine(value.name)>>
      [] value.t = "Instance" ->
            <<PrintLine(vm.instances[value.id].class.name \o " instance")>>

\* VM::print_value
print_value(vm, value) == [vm EXCEPT !.stdout = @ \o print_value_lines(vm, value)]

\* a message built by format!: the text with its {} arguments rendered, and
\* the values of its {:?} arguments
Msg(text) == [text |-> text, args |-> <<>>]
MsgDbg(text, arg) == [text |-> text, args |-> <<arg>>]

\* VM::stack_trace indexes chunk.lines[frame.ip] for every active frame
stack_trace_ok(vm) ==
    \A i \in 1..vm.frame_count :
        vm.frames[i].ip < Len(vm.frames[i].closure.function.chunk.lines)
stack_trace(vm) ==
    [i \in 1..vm.frame_count |->
        [frame_idx |-> i - 1,
         name |-> IF IsSome(vm.frames[i].closure.function.name)
                  THEN Unwrap(vm.frames[i].closure.function.name) ELSE "main",
         line |-> vm.frames[i].closure.function.chunk.lines[vm.frames[i].ip + 1]]]

\* VM::runtime_error: prints the stack trace and the message, and returns
runtime_error(vm, message) ==
    IF ~stack_trace_ok(vm) THEN Panic(vm)
    ELSE [vm EXCEPT !.stdout =
            Append(@, [kind |-> "runtime_error", trace |-> stack_trace(vm),
                       message |-> message])]

\* self.runtime_error(..); return InterpretResult::RuntimeError;
Fail(vm, message) ==
    LET v == runtime_error(vm, message)
    IN  IF v.result = "Panic" THEN v ELSE Return(v, "RuntimeError")

\* the frame! macro: frames[frame_count - 1]
frame(vm) == vm.frames[vm.frame_count]
current_chunk_of(vm) == frame(vm).closure.function.chunk
\* the operand bytes are code[ip], code[ip + 1], ...: k-th byte after ip
CanRead(vm, n) == frame(vm).ip + n <= Len(current_chunk_of(vm).code)
Byte(vm, k) == current_chunk_of(vm).code[frame(vm).ip + k + 1]
Adv(vm, n) == [vm EXCEPT !.frames[vm.frame_count].ip = @ + n]
\* read_constant!: constants[code[ip]]
CanReadConstant(vm) ==
    CanRead(vm, 1) /\ Byte(vm, 0) < Len(current_chunk_of(vm).constants)
Constant(vm) == current_chunk_of(vm).constants[Byte(vm, 0) + 1]
\* read_short!: big-endian u16
Short(vm) == Byte(vm, 0) * 256 + Byte(vm, 1)

\* VM::call.  size - arg_count - 1 cannot underflow where call is used: the
\* callee was read with peek(arg_count), or was just pushed by interpret.
call_arity_unchecked(vm, closure, arg_count) ==
    IF vm.frame_count = MAX_FRAMES
    THEN [vm |-> runtime_error(vm, Msg("Stack overflow.")), ok |-> FALSE]
    ELSE [vm |-> [vm EXCEPT !.frames[vm.frame_count + 1] =
                        [closure |-> closure, ip |-> 0,
                         slot |-> size(vm) - arg_count - 1],
                     !.frame_count = @ + 1],
          ok |-> TRUE]
call_no_frame_limit(vm, closure, arg_count) ==
    IF arg_count # closure.function.arity
    THEN [vm |-> runtime_error(vm,
                    Msg("Expected " \o IntToStr(closure.function.arity)
                        \o " arguments but got " \o IntToStr(arg_count))),
          ok |-> FALSE]
    ELSE IF vm.frame_count >= Len(vm.frames) THEN [vm |-> Panic(vm), ok |-> FALSE]
    ELSE [vm |-> [vm EXCEPT !.frames[vm.frame_count + 1] =
                        [closure |-> closure, ip |-> 0,
                         slot |-> size(vm) - arg_count - 1],
                     !.frame_count = @ + 1],
          ok |-> TRUE]
\* call with the slot of the first argument as the frame's
call_slot_of_first_argument(vm, closure, arg_count) ==
    IF arg_count # closure.function.arity
    THEN [vm |-> runtime_error(vm,
                    Msg("Expected " \o IntToStr(closure.function.arity)
                        \o " arguments but got " \o IntToStr(arg_count))),
          ok |-> FALSE]
    ELSE IF vm.frame_count = MAX_FRAMES
    THEN [vm |-> runtime_error(vm, Msg("Stack overflow.")), ok |-> FALSE]
    ELSE [vm |-> [vm EXCEPT !.frames[vm.frame_count + 1] =
                        [closure |-> closure, ip |-> 0,
                         slot |-> size(vm) - arg_count],
                     !.frame_count = @ + 1],
          ok |-> TRUE]
call(vm, closure, arg_count) ==
    IF arg_count # closure.function.arity
    THEN [vm |-> runtime_error(vm,
                    Msg("Expected " \o IntToStr(closure.function.arity)
                        \o " arguments but got " \o IntToStr(arg_count))),
          ok |-> FALSE]
    ELSE IF vm.frame_count = MAX_FRAMES
    THEN [vm |-> runtime_error(vm, Msg("Stack overflow.")), ok |-> FALSE]
    ELSE [vm |-> [vm EXCEPT !.frames[vm.frame_count + 1] =
                        [closure |-> closure, ip |-> 0,
                         slot |-> size(vm) - arg_count - 1],
                     !.frame_count = @ + 1],
          ok |-> TRUE]

\* VM::call_native; millis is what the system clock reads
call_native(vm, func, arg_count, millis) ==
    IF arg_count # func.arity
    THEN [vm |-> runtime_error(vm,
                    Msg("Expected " \o IntToStr(func.arity)
                        \o " arguments but got " \o IntToStr(arg_count))),
          ok |-> FALSE]
    ELSE IF vm.frame_count = MAX_FRAMES
    THEN [vm |-> runtime_error(vm, Msg("Stack overflow.")), ok |-> FALSE]
    ELSE IF func.name = "clock"
    THEN [vm |-> push(pop(vm), Number(millis)), ok |-> TRUE]
    ELSE IF func.name = "limit"
    THEN [vm |-> Panic(vm), ok |-> FALSE]
    ELSE [vm |-> runtime_error(vm, Msg("No native function named '" \o func.name \o "'")),
          ok |-> FALSE]

\* VM::call_value
call_value(vm, callee, arg_count, millis) ==
    CASE callee.t = "Class" ->
            LET id == Len(vm.instances) + 1
                v1 == [vm EXCEPT !.instances =
                         Append(@, [class |-> callee, fields |-> [n \in {} |-> Nil]])]
            IN  [vm |-> set_value_at_idx(v1, size(vm) - arg_count - 1, InstanceRef(id)),
                 ok |-> TRUE]
      [] callee.t = "Closure" -> call(vm, callee, arg_count)
      [] callee.t = "NativeFunction" -> call_native(vm, callee, arg_count, millis)
      [] OTHER ->
            [vm |-> runtime_error(vm, MsgDbg("Can't call value {:?}", callee)),
             ok |-> FALSE]

\* the while loop of capture_upvalue: walks the list while location > target
RECURSIVE upvalue_walk(_, _, _)
upvalue_walk(previous_upvalue, upvalue, target) ==
    IF IsSome(upvalue) /\ Unwrap(upvalue).location > target
    THEN upvalue_walk(upvalue, Unwrap(upvalue).next, target)
    ELSE [previous_upvalue |-> previous_upvalue, upvalue |-> upvalue]

\* a capture_upvalue that links every new cell at the head without a walk
capture_upvalue_at_head(vm, index) ==
    LET target == frame(vm).slot + index
        new_upvalue == Upvalue(target, index, vm.open_upvalue_head, None)
    IN  [vm |-> [vm EXCEPT !.open_upvalue_head = Some(new_upvalue)],
         upvalue |-> new_upvalue]

\* VM::capture_upvalue: the VM after the call and the Upvalue returned.  The
\* list is walked on clones, so a node linked behind previous_upvalue is
\* linked into a temporary and the VM's list is left as it was.
capture_upvalue(vm, index) ==
    LET target == frame(vm).slot + index
        w == upvalue_walk(None, vm.open_upvalue_head, target)
        new_upvalue == Upvalue(target, index, w.upvalue, None)
    IN  IF IsSome(w.upvalue) /\ Unwrap(w.upvalue).location = target
        THEN [vm |-> vm, upvalue |-> Unwrap(w.upvalue)]
        ELSE IF ~IsSome(w.previous_upvalue)
        THEN [vm |-> [vm EXCEPT !.open_upvalue_head = Some(new_upvalue)],
              upvalue |-> new_upvalue]
        ELSE [vm |-> vm, upvalue |-> new_upvalue]

\* VM::close_upvalues(closure): the closure with its open upvalues above the
\* frame's slot closed, or None when a location is off the stack (a panic)
close_upvalues(vm, closure) ==
    LET slot == frame(vm).slot
        closes(u) == ~IsSome(u.closed) /\ u.location > slot
    IN  IF \E i \in 1..Len(closure.upvalues) :
                closes(closure.upvalues[i]) /\ ~InBounds(vm, closure.upvalues[i].location)
        THEN None
        ELSE Some([closure EXCEPT !.upvalues =
                [i \in 1..Len(closure.upvalues) |->
                    IF closes(closure.upvalues[i])
                    THEN [closure.upvalues[i] EXCEPT !.closed =
                            Some(get_value_at_idx(vm, closure.upvalues[i].location))]
                    ELSE closure.upvalues[i]]])

-----------------------------------------------------------------------------
(* vm.rs, run(): the opcode handlers.  Each takes the VM after the opcode  *)
(* byte has been fetched (ip already past it) and returns the VM after the *)
(* handler.                                                                *)

\* a Return that pushes the result on the stack as the callee left it
OpReturn_untruncated(vm) ==
    IF size(vm) = 0 THEN Panic(vm)
    ELSE
    LET result0 == Unwrap(last_value(vm))
        v1 == pop(vm)
        closed == IF result0.t = "Closure" THEN close_upvalues(v1, result0) ELSE Some(result0)
    IN  IF ~IsSome(closed) THEN Panic(v1)
        ELSE
        LET v2 == [v1 EXCEPT !.frame_count = @ - 1]
        IN  IF v2.frame_count = 0 THEN Return(pop(v2), "Ok")
            ELSE push(v2, Unwrap(closed))

\* OpCode::Return
OpReturn(vm) ==
    IF size(vm) = 0 THEN Panic(vm)
    ELSE
    LET result0 == Unwrap(last_value(vm))
        v1 == pop(vm)
        slot == frame(v1).slot
        closed == IF result0.t = "Closure" THEN close_upvalues(v1, result0) ELSE Some(result0)
    IN  IF ~IsSome(closed) THEN Panic(v1)
        ELSE
        LET v2 == [v1 EXCEPT !.frame_count = @ - 1]
        IN  IF v2.frame_count = 0 THEN Return(pop(v2), "Ok")
            ELSE push([v2 EXCEPT !.value_stack =
                            IF Len(@) > slot THEN SubSeq(@, 1, slot) ELSE @],
                      Unwrap(closed))

\* OpCode::Constant
OpConstant(vm) ==
    IF ~CanReadConstant(vm) THEN Panic(vm)
    ELSE push(Adv(vm, 1), Constant(vm))

IsA(o, t) == IsSome(o) /\ Unwrap(o).t = t

\* Add with a and b taken in the order they are popped: the text of the top
\* of the stack comes first
OpAdd_swapped(vm) ==
    LET a == last_value(vm)
        v1 == pop(vm)
        b == last_value(v1)
        v2 == pop(v1)
    IN  IF IsA(b, "Number")
        THEN IF IsA(a, "Number") THEN push(v2, NumAdd(Unwrap(a), Unwrap(b)))
             ELSE IF IsA(a, "String")
             THEN push(v2, String(Unwrap(a).s \o FormatNumber(Unwrap(b))))
             ELSE Fail(v2, MsgDbg("LHS of addition can't be added to a number: {:?}", a))
        ELSE IF IsA(b, "String")
        THEN IF IsA(a, "String") THEN push(v2, String(Unwrap(a).s \o Unwrap(b).s))
             ELSE IF IsA(a, "Number")
             THEN push(v2, String(FormatNumber(Unwrap(a)) \o Unwrap(b).s))
             ELSE Fail(v2, MsgDbg("LHS of addition can't be added to a string: {:?}", a))
        ELSE Fail(v2, MsgDbg("RHS of addition is an invalid addend: {:?}", b))

\* OpCode::Add
OpAdd(vm) ==
    LET b == last_value(vm)
        v1 == pop(vm)
        a == last_value(v1)
        v2 == pop(v1)
    IN  IF IsA(b, "Number")
        THEN IF IsA(a, "Number") THEN push(v2, NumAdd(Unwrap(a), Unwrap(b)))
             ELSE IF IsA(a, "String")
             THEN push(v2, String(Unwrap(a).s \o FormatNumber(Unwrap(b))))
             ELSE Fail(v2, MsgDbg("LHS of addition can't be added to a number: {:?}", a))
        ELSE IF IsA(b, "String")
        THEN IF IsA(a, "String") THEN push(v2, String(Unwrap(a).s \o Unwrap(b).s))
             ELSE IF IsA(a, "Number")
             THEN push(v2, String(FormatNumber(Unwrap(a)) \o Unwrap(b).s))
             ELSE Fail(v2, MsgDbg("LHS of addition can't be added to a string: {:?}", a))
        ELSE Fail(v2, MsgDbg("RHS of addition is an invalid addend: {:?}", b))

\* the binary_op! macro; op is "-", "*" or "/"
binary_op(vm, op) ==
    LET b == last_value(vm)
        v1 == pop(vm)
        a == last_value(v1)
        v2 == pop(v1)
        fails(text, arg) ==
            IF frame(v2).ip >= Len(current_chunk_of(v2).lines) THEN Panic(v2)
            ELSE Return([v2 EXCEPT !.stdout = Append(@,
                            [kind |-> "error",
                             line |-> current_chunk_of(v2).lines[frame(v2).ip + 1],
                             message |-> MsgDbg(text, arg)])],
                        "RuntimeError")
    IN  IF IsA(b, "Number")
        THEN IF IsA(a, "Number")
             THEN push(v2, CASE op = "-" -> NumSub(Unwrap(a), Unwrap(b))
                             [] op = "*" -> NumMul(Unwrap(a), Unwrap(b))
                             [] op = "/" -> NumDiv(Unwrap(a), Unwrap(b)))
             ELSE fails("Performing binary operation because LHS isn't a number. LHS = {:?}", a)
        ELSE fails("Performing binary operation because RHS isn't a number. RHS = {:?}", b)

\* OpCode::Subtract
OpSubtract(vm) == binary_op(vm, "-")
\* OpCode::Multiply
OpMultiply(vm) == binary_op(vm, "*")
\* OpCode::Divide
OpDivide(vm) == binary_op(vm, "/")
\* OpCode::True
OpTrue(vm) == push(vm, Boolean(TRUE))
\* OpCode::False
OpFalse(vm) == push(vm, Boolean(FALSE))
\* OpCode::Nil
OpNil(vm) == push(vm, Nil)

\* OpCode::Not
OpNot(vm) ==
    LET v == last_value(vm)
        v1 == pop(vm)
    IN  IF IsSome(v) THEN push(v1, Boolean(is_falsey(Unwrap(v))))
        ELSE Fail(v1, Msg("Can't perform negation on 'None' value."))

\* OpCode::Negate
OpNegate(vm) ==
    LET v == last_value(vm)
        v1 == pop(vm)
    IN  IF IsA(v, "Number") THEN push(v1, NumNeg(Unwrap(v)))
        ELSE Fail(v1, MsgDbg("Can't negate non-numeric value: {:?}", v))

\* OpCode::Equal
OpEqual(vm) ==
    LET b == last_value(vm)
        v1 == pop(vm)
        a == last_value(v1)
        v2 == pop(v1)
        same(t, eq) ==
            IF IsA(a, t) THEN push(v2, Boolean(eq))
            ELSE IF ~IsSome(a) THEN Return(v2, "RuntimeError")
            ELSE push(v2, Boolean(FALSE))
    IN  IF IsA(b, "Number") THEN same("Number", IsA(a, "Number") /\ NumEq(Unwrap(a), Unwrap(b)))
        ELSE IF IsA(b, "Boolean") THEN same("Boolean", IsA(a, "Boolean") /\ Unwrap(a).b = Unwrap(b).b)
        ELSE IF IsA(b, "Nil") THEN same("Nil", TRUE)
        ELSE IF IsA(b, "String")
        THEN push(v2, Boolean(IsA(a, "String") /\ Unwrap(a).s = Unwrap(b).s))
        ELSE IF ~IsSome(b) THEN Return(v2, "RuntimeError")
        ELSE push(v2, Boolean(FALSE))

\* OpCode::Greater (greater = TRUE) and OpCode::Less (greater = FALSE)
compare(vm, greater) ==
    LET b == last_value(vm)
        v1 == pop(vm)
        a == last_value(v1)
        v2 == pop(v1)
        text == IF greater THEN "Can't perform > operation on value {:?}"
                ELSE "Can't perform < operation on value {:?}"
    IN  IF IsA(b, "Number")
        THEN IF IsA(a, "Number")
             THEN push(v2, Boolean(IF greater THEN NumLess(Unwrap(b), Unwrap(a))
                                   ELSE NumLess(Unwrap(a), Unwrap(b))))
             ELSE Fail(v2, MsgDbg(text, a))
        ELSE Fail(v2, MsgDbg(text, b))
\* OpCode::Greater
OpGreater(vm) == compare(vm, TRUE)
\* OpCode::Less
OpLess(vm) == compare(vm, FALSE)

\* OpCode::Print
OpPrint(vm) ==
    LET v == last_value(vm)
        v1 == pop(vm)
    IN  IF IsA(v, "Upvalue")
        THEN LET upvalue == Unwrap(v).upvalue
             IN  IF ~IsSome(upvalue.closed)
                 THEN IF ~InBounds(v1, upvalue.location) THEN Panic(v1)
                      ELSE print_value(v1, get_value_at_idx(v1, upvalue.location))
                 ELSE print_value([v1 EXCEPT !.stdout = Append(@, PrintLine("here?"))],
                                  Unwrap(upvalue.closed))
        ELSE IF IsSome(v) THEN print_value(v1, Unwrap(v))
        ELSE Return(v1, "RuntimeError")

\* OpCode::Pop
OpPop(vm) == pop(vm)

\* OpCode::DefineGlobal
OpDefineGlobal(vm) ==
    IF ~CanReadConstant(vm) THEN Panic(vm)
    ELSE
    LET name == Constant(vm)
        v1 == Adv(vm, 1)
        define(key) ==
            IF size(v1) = 0 THEN Panic(v1)
            ELSE pop([v1 EXCEPT !.globals = (key :> Unwrap(last_value(v1))) @@ @])
    IN  IF name.t = "String" THEN define(name.s)
        ELSE IF name.t = "Class" THEN define(name.name)
        ELSE Fail(v1, MsgDbg("Can't define global with non-string constant {:?}", name))

\* OpCode::GetGlobal
OpGetGlobal(vm) ==
    IF ~CanReadConstant(vm) THEN Panic(vm)
    ELSE
    LET name == Constant(vm)
        v1 == Adv(vm, 1)
    IN  IF name.t = "String"
        THEN IF name.s \in DOMAIN v1.globals THEN push(v1, v1.globals[name.s])
             ELSE Fail(v1, Msg("Global var '" \o name.s \o "' does not exist."))
        ELSE Fail(v1, MsgDbg("Invalid global accessor: {:?}", name))

\* SetGlobal without the contains_key test: the insert creates the global
OpSetGlobal_creating(vm) ==
    IF ~CanReadConstant(vm) THEN Panic(vm)
    ELSE
    LET name == Constant(vm)
        v1 == Adv(vm, 1)
    IN  IF name.t = "String"
        THEN IF size(v1) = 0 THEN Panic(v1)
             ELSE [v1 EXCEPT !.globals = (name.s :> Unwrap(last_value(v1))) @@ @]
        ELSE Fail(v1, MsgDbg("Invalid global accessor: {:?}", name))

\* OpCode::SetGlobal
OpSetGlobal(vm) ==
    IF ~CanReadConstant(vm) THEN Panic(vm)
    ELSE
    LET name == Constant(vm)
        v1 == Adv(vm, 1)
    IN  IF name.t = "String"
        THEN IF name.s \notin DOMAIN v1.globals
             THEN Fail(v1, Msg("Global var '" \o name.s \o "' does not exist."))
             ELSE IF size(v1) = 0 THEN Panic(v1)
             ELSE [v1 EXCEPT !.globals = (name.s :> Unwrap(last_value(v1))) @@ @]
        ELSE Fail(v1, MsgDbg("Invalid global accessor: {:?}", name))

\* read_byte!() + frame!().slot as u8: a u8 addition.  None stands for the
\* panic of a build with overflow checks; without them the sum wraps.
local_slot(vm) ==
    LET sum == Byte(vm, 0) + (frame(vm).slot % U8)
    IN  IF sum >= U8 /\ overflow_checks THEN None ELSE Some(sum % U8)

\* OpCode::GetLocal
OpGetLocal(vm) ==
    IF ~CanRead(vm, 1) THEN Panic(vm)
    ELSE
    LET slot == local_slot(vm)
        v1 == Adv(vm, 1)
    IN  IF ~IsSome(slot) \/ ~InBounds(v1, Unwrap(slot)) THEN Panic(v1)
        ELSE push(v1, get_value_at_idx(v1, Unwrap(slot)))

\* OpCode::SetLocal
OpSetLocal(vm) ==
    IF ~CanRead(vm, 1) THEN Panic(vm)
    ELSE
    LET slot == local_slot(vm)
        v1 == Adv(vm, 1)
    IN  IF ~IsSome(slot) \/ ~CanPeek(v1, 0) \/ ~InBounds(v1, Unwrap(slot)) THEN Panic(v1)
        ELSE set_value_at_idx(v1, Unwrap(slot), peek(v1, 0))

\* OpCode::JumpIfFalse
OpJumpIfFalse(vm) ==
    IF ~CanRead(vm, 2) THEN Panic(vm)
    ELSE
    LET offset == Short(vm)
        v1 == Adv(vm, 2)
    IN  IF ~CanPeek(v1, 0) THEN Panic(v1)
        ELSE IF is_falsey(peek(v1, 0)) THEN Adv(v1, offset) ELSE v1

\* OpCode::Jump
OpJump(vm) ==
    IF ~CanRead(vm, 2) THEN Panic(vm)
    ELSE Adv(Adv(vm, 2), Short(vm))

\* Loop with the offset taken from the operand's offset: ip is left two short
\* of the loop's start
OpLoop_from_operand(vm) ==
    IF ~CanRead(vm, 2) THEN Panic(vm)
    ELSE IF Short(vm) > frame(vm).ip THEN Panic(vm)
    ELSE Adv(vm, -Short(vm))

\* OpCode::Loop.  ip -= offset is a usize subtraction: when it underflows, a
\* build with overflow checks panics here, and one without wraps ip to an
\* offset beyond the code, so that the fetch that follows panics.
OpLoop(vm) ==
    IF ~CanRead(vm, 2) THEN Panic(vm)
    ELSE
    LET offset == Short(vm)
        v1 == Adv(vm, 2)
    IN  IF offset > frame(v1).ip THEN Panic(v1)
        ELSE Adv(v1, -offset)

\* OpCode::Call
OpCall(vm, millis) ==
    IF ~CanRead(vm, 1) THEN Panic(vm)
    ELSE
    LET arg_count == Byte(vm, 0)
        v1 == Adv(vm, 1)
    IN  IF ~CanPeek(v1, arg_count) THEN Panic(v1)
        ELSE
        LET r == call_value(v1, peek(v1, arg_count), arg_count, millis)
        IN  IF r.vm.result = "Panic" \/ r.ok THEN r.vm
            ELSE Return(r.vm, "RuntimeError")

\* the for loop of OpCode::Closure from upvalue idx on (0-based)
RECURSIVE closure_upvalues(_, _, _)
closure_upvalues(vm, closure, idx) ==
    IF idx >= Len(closure.upvalues) THEN push(vm, closure)
    ELSE IF ~CanRead(vm, 2) THEN Panic(vm)
    ELSE
    LET is_local == Byte(vm, 0)
        index == Byte(vm, 1)
        v1 == Adv(vm, 2)
    IN  IF is_local = 1
        THEN LET c == capture_upvalue(v1, index)
             IN  closure_upvalues(c.vm, [closure EXCEPT !.upvalues[idx + 1] = c.upvalue],
                                  idx + 1)
        ELSE IF index >= Len(frame(v1).closure.upvalues)
        THEN Panic(runtime_error(v1, Msg("error creating higher upvalue")))
        ELSE closure_upvalues(v1,
                [closure EXCEPT !.upvalues[idx + 1] = frame(v1).closure.upvalues[index + 1]],
                idx + 1)

\* OpCode::Closure
OpClosure(vm) ==
    IF ~CanReadConstant(vm) THEN Panic(vm)
    ELSE
    LET value == Constant(vm)
        v1 == Adv(vm, 1)
    IN  IF value.t = "Function" THEN closure_upvalues(v1, NewClosure(value), 0)
        ELSE Fail(v1, MsgDbg("Can't create closure from {:?}", value))

\* OpCode::GetUpvalue
OpGetUpvalue(vm) ==
    IF ~CanRead(vm, 1) THEN Panic(vm)
    ELSE
    LET slot == Byte(vm, 0)
        v1 == Adv(vm, 1)
    IN  IF slot >= Len(frame(v1).closure.upvalues) THEN Panic(v1)
        ELSE LET upvalue == frame(v1).closure.upvalues[slot + 1]
             IN  IF IsSome(upvalue.closed) THEN push(v1, Unwrap(upvalue.closed))
                 ELSE push(v1, UpvalueV(upvalue))

\* OpCode::SetUpvalue
OpSetUpvalue(vm) ==
    IF ~CanRead(vm, 1) THEN Panic(vm)
    ELSE
    LET slot == Byte(vm, 0)
        v1 == Adv(vm, 1)
    IN  IF ~CanPeek(v1, 0) \/ slot >= Len(frame(v1).closure.upvalues) THEN Panic(v1)
        ELSE
        LET upvalue == frame(v1).closure.upvalues[slot + 1]
        IN  IF IsSome(upvalue.closed)
            THEN [v1 EXCEPT !.frames[v1.frame_count].closure.upvalues[slot + 1].closed =
                        Some(peek(v1, 0))]
            ELSE IF ~InBounds(v1, upvalue.location) THEN Panic(v1)
            ELSE set_value_at_idx(v1, upvalue.location, peek(v1, 0))

\* OpCode::CloseUpvalue: todo!("what do i do here")
OpCloseUpvalue(vm) == Panic(vm)

\* OpCode::Class
OpClass(vm) ==
    IF ~CanReadConstant(vm) THEN Panic(vm)
    ELSE push(Adv(vm, 1), Constant(vm))

\* OpCode::GetProperty
OpGetProperty(vm) ==
    IF ~CanPeek(vm, 0) \/ ~CanReadConstant(vm) THEN Panic(vm)
    ELSE
    LET instance == peek(vm, 0)
        property_name == Constant(vm)
        v1 == Adv(vm, 1)
    IN  IF instance.t = "Instance"
        THEN IF property_name.t = "String"
             THEN LET fields == v1.instances[instance.id].fields
                  IN  IF property_name.s \in DOMAIN fields
                      THEN push(pop(v1), fields[property_name.s])
                      ELSE runtime_error(v1,
                              Msg("Undefined property '" \o property_name.s \o "'."))
             ELSE runtime_error(v1,
                     MsgDbg("Value {:?} is not a valid property accessor (must be a string).",
                            property_name))
        ELSE runtime_error(v1, MsgDbg("Value {:?} is not an instance.", instance))

\* OpCode::SetProperty
OpSetProperty(vm) ==
    IF ~CanPeek(vm, 1) \/ ~CanReadConstant(vm) THEN Panic(vm)
    ELSE
    LET instance == peek(vm, 1)
        value_to_set_as == peek(vm, 0)
        property_name == Constant(vm)
        v1 == Adv(vm, 1)
        v2 == IF instance.t = "Instance"
              THEN IF property_name.t = "String"
                   THEN [v1 EXCEPT !.instances[instance.id].fields =
                            (property_name.s :> value_to_set_as) @@ @]
                   ELSE runtime_error(v1,
                          MsgDbg("Value {:?} is not a valid property accessor (must be a string).",
                                 property_name))
              ELSE runtime_error(v1, MsgDbg("Value {:?} is not an instance.", instance))
    IN  IF v2.result = "Panic" THEN v2
        ELSE push(pop(pop(v2)), Unwrap(last_value(v2)))

\* the opcode run() fetches next: get_instruction!().unwrap() panics when ip
\* is past the code or the byte is no opcode
CanFetch(vm) ==
    /\ vm.frame_count >= 1
    /\ CanRead(vm, 1)
    /\ Byte(vm, 0) \in OpCodes
Fetched(vm) == Byte(vm, 0)

\* the values that the instruction at ip takes from the top of the stack with
\* pop(), last_value() or peek(distance) in its arm of run()
stack_demand(vm) ==
    LET instruction == Fetched(vm)
        v == Adv(vm, 1)
    IN  CASE instruction = OP_RETURN -> IF vm.frame_count = 1 THEN 2 ELSE 1
          [] instruction \in {OP_ADD, OP_SUBTRACT, OP_MULTIPLY, OP_DIVIDE,
                              OP_EQUAL, OP_GREATER, OP_LESS, OP_SET_PROPERTY} -> 2
          [] instruction \in {OP_NOT, OP_NEGATE, OP_PRINT, OP_POP, OP_SET_LOCAL,
                              OP_JUMP_IF_FALSE, OP_SET_UPVALUE, OP_GET_PROPERTY} -> 1
          [] instruction = OP_DEFINE_GLOBAL ->
                IF CanReadConstant(v) /\ Constant(v).t \in {"String", "Class"} THEN 1 ELSE 0
          [] instruction = OP_SET_GLOBAL ->
                IF CanReadConstant(v) /\ Constant(v).t = "String"
                        /\ Constant(v).s \in DOMAIN vm.globals
                THEN 1 ELSE 0
          [] instruction = OP_CALL -> IF CanRead(v, 1) THEN Byte(v, 0) + 1 ELSE 0
          [] OTHER -> 0

\* one iteration of the loop of run()
Execute(vm, millis) ==
    IF ~CanFetch(vm) THEN Panic(vm)
    ELSE
    LET instruction == Fetched(vm)
        v == Adv(vm, 1)
    IN  CASE instruction = OP_RETURN -> OpReturn(v)
          [] instruction = OP_CONSTANT -> OpConstant(v)
          [] instruction = OP_NIL -> OpNil(v)
          [] instruction = OP_TRUE -> OpTrue(v)
          [] instruction = OP_FALSE -> OpFalse(v)
          [] instruction = OP_EQUAL -> OpEqual(v)
          [] instruction = OP_GREATER -> OpGreater(v)
          [] instruction = OP_LESS -> OpLess(v)
          [] instruction = OP_NEGATE -> OpNegate(v)
          [] instruction = OP_ADD -> OpAdd(v)
          [] instruction = OP_SUBTRACT -> OpSubtract(v)
          [] instruction = OP_MULTIPLY -> OpMultiply(v)
          [] instruction = OP_DIVIDE -> OpDivide(v)
          [] instruction = OP_NOT -> OpNot(v)
          [] instruction = OP_PRINT -> OpPrint(v)
          [] instruction = OP_POP -> OpPop(v)
          [] instruction = OP_DEFINE_GLOBAL -> OpDefineGlobal(v)
          [] instruction = OP_GET_GLOBAL -> OpGetGlobal(v)
          [] instruction = OP_SET_GLOBAL -> OpSetGlobal(v)
          [] instruction = OP_GET_LOCAL -> OpGetLocal(v)
          [] instruction = OP_SET_LOCAL -> OpSetLocal(v)
          [] instruction = OP_JUMP_IF_FALSE -> OpJumpIfFalse(v)
          [] instruction = OP_JUMP -> OpJump(v)
          [] instruction = OP_LOOP -> OpLoop(v)
          [] instruction = OP_CALL -> OpCall(v, millis)
          [] instruction = OP_CLOSURE -> OpClosure(v)
          [] instruction = OP_GET_UPVALUE -> OpGetUpvalue(v)
          [] instruction = OP_SET_UPVALUE -> OpSetUpvalue(v)
          [] instruction = OP_CLOSE_UPVALUE -> OpCloseUpvalue(v)
          [] instruction = OP_CLASS -> OpClass(v)
          [] instruction = OP_GET_PROPERTY -> OpGetProperty(v)
          [] instruction = OP_SET_PROPERTY -> OpSetProperty(v)

\* VM::new: the natives clock and limit are the only globals
NewGlobals ==
    ("clock" :> NativeFunction("clock", 0)) @@ ("limit" :> NativeFunction("limit", 1))
NewFrames == [i \in 1..MAX_FRAMES |-> [closure |-> NewClosure(NewFunction), ip |-> 0, slot |-> 0]]
NewVM ==
    [value_stack |-> <<>>, frames |-> NewFrames, frame_count |-> 0,
     globals |-> NewGlobals, open_upvalue_head |-> None,
     instances |-> <<>>, stdout |-> <<>>, result |-> "none"]

\* VM::interpret, after compile(): compile_result is None or Some(func)
interpret_without_push(vm, compile_result) ==
    IF ~IsSome(compile_result) THEN Return(vm, "CompileError")
    ELSE LET closure == NewClosure(Unwrap(compile_result))
         IN  [vm EXCEPT !.frames[1] = [closure |-> closure, ip |-> 0, slot |-> 0],
                        !.frame_count = 1]
interpret(vm, compile_result) ==
    IF ~IsSome(compile_result) THEN Return(vm, "CompileError")
    ELSE LET closure == NewClosure(Unwrap(compile_result))
         IN  call(push(vm, closure), closure, 0).vm

-----------------------------------------------------------------------------
(* scanner.rs.  The source is a string of ASCII characters; offsets are    *)
(* 0-based, so the character at offset i is SubSeq(source, i + 1, i + 1).  *)
(* The character '\0' that peek() returns at the end is the empty string.  *)

\* Token { token_type, start, length, line }
Token(token_type, start, length, line) ==
    [token_type |-> token_type, start |-> start, length |-> length, line |-> line]
\* Token::default
DefaultToken == Token("Error", 0, 0, 0)

LowerCase ==
    {"a", "b", "c", "d", "e", "f", "g", "h", "i", "j", "k", "l",
     "m", "n", "o", "p", "q", "r", "s", "t", "u", "v", "w", "x", "y", "z"}
UpperCase ==
    {"A", "B", "C", "D", "E", "F", "G", "H", "I", "J", "K", "L",
     "M", "N", "O", "P", "Q", "R", "S", "T", "U", "V", "W", "X", "Y", "Z"}
is_alpha(c) == c \in LowerCase \/ c \in UpperCase \/ c = "_"
DigitChars == {"0", "1", "2", "3", "4", "5", "6", "7", "8", "9"}
is_digit(c) == c \in DigitChars

\* Scanner::new; panicked is set when an expect() of the scanner fails
NewScanner(text) == [source |-> text, start |-> 0, current |-> 0, line |-> 1,
                     panicked |-> FALSE]
\* source[from..to]
Slice(text, from, to) == SubSeq(text, from + 1, to)
make_token(s, token_type) == Token(token_type, s.start, s.current - s.start, s.line)
is_at_end(s) == s.current = Len(s.source)
get_char_at_index(s, index) == SubSeq(s.source, index + 1, index + 1)
\* Scanner::advance, the scanner after it
scan_advance(s) == [s EXCEPT !.current = @ + 1]
\* Scanner::peek
scan_peek(s) == IF is_at_end(s) THEN "" ELSE get_char_at_index(s, s.current)
\* Scanner::peek_next reads source[current + 1] whenever current is not the
\* end: the expect() fails when current is the last character
peek_next_panics(s) == ~is_at_end(s) /\ s.current + 1 >= Len(s.source)
peek_next(s) == IF is_at_end(s) THEN None ELSE Some(get_char_at_index(s, s.current + 1))
\* Scanner::match_char: whether it matched, and the scanner after it
match_char(s, expected) ==
    IF is_at_end(s) \/ scan_peek(s) # expected THEN [matched |-> FALSE, scanner |-> s]
    ELSE [matched |-> TRUE, scanner |-> scan_advance(s)]

\* the loop of skip_whitespace for a // comment
RECURSIVE skip_comment(_)
skip_comment(s) ==
    IF scan_peek(s) # "\n" /\ ~is_at_end(s) THEN skip_comment(scan_advance(s)) ELSE s

\* Scanner::skip_whitespace
RECURSIVE skip_whitespace(_)
skip_whitespace(s) ==
    IF is_at_end(s) THEN s
    ELSE LET c == scan_peek(s)
         IN  IF c \in {" ", "\r", "\t"} THEN skip_whitespace(scan_advance(s))
             ELSE IF c = "\n" THEN skip_whitespace(scan_advance([s EXCEPT !.line = @ + 1]))
             ELSE IF c = "/"
             THEN IF peek_next_panics(s) THEN [s EXCEPT !.panicked = TRUE]
                  ELSE IF peek_next(s) = Some("/") THEN skip_whitespace(skip_comment(s))
                  ELSE s
             ELSE s

\* Scanner::check_keyword
check_keyword(s, start, length, rest, token_type) ==
    IF s.current - s.start # start + length THEN "Identifier"
    ELSE IF Slice(s.source, s.start + start, s.start + start + length) # rest
    THEN "Identifier"
    ELSE token_type

\* Scanner::identifier_type
identifier_type(s) ==
    LET c == get_char_at_index(s, s.start)
        c2 == get_char_at_index(s, s.start + 1)
    IN  CASE c = "a" -> check_keyword(s, 1, 2, "nd", "And")
          [] c = "c" -> check_keyword(s, 1, 4, "lass", "Class")
          [] c = "e" -> check_keyword(s, 1, 3, "lse", "Else")
          [] c = "f" ->
                IF s.current - s.start > 1
                THEN CASE c2 = "a" -> check_keyword(s, 2, 3, "lse", "False")
                       [] c2 = "o" -> check_keyword(s, 2, 1, "r", "For")
                       [] c2 = "u" -> check_keyword(s, 2, 1, "n", "Fun")
                       [] OTHER -> "Identifier"
                ELSE "Identifier"
          [] c = "i" -> check_keyword(s, 1, 1, "f", "If")
          [] c = "n" -> check_keyword(s, 1, 2, "il", "Nil")
          [] c = "o" -> check_keyword(s, 1, 1, "r", "Or")
          [] c = "p" -> check_keyword(s, 1, 4, "rint", "Print")
          [] c = "r" -> check_keyword(s, 1, 5, "eturn", "Return")
          [] c = "s" -> check_keyword(s, 1, 4, "uper", "Super")
          [] c = "t" ->
                IF s.current - s.start > 1
                THEN CASE c2 = "h" -> check_keyword(s, 2, 2, "is", "This")
                       [] c2 = "r" -> check_keyword(s, 2, 2, "ue", "True")
                       [] OTHER -> "Identifier"
                ELSE "Identifier"
          [] c = "v" -> check_keyword(s, 1, 2, "ar", "Var")
          [] c = "w" -> check_keyword(s, 1, 4, "hile", "While")
          [] OTHER -> "Identifier"

\* the scanner after `while is_digit(self.peek()) { self.advance(); }`
RECURSIVE skip_digits(_)
skip_digits(s) == IF is_digit(scan_peek(s)) THEN skip_digits(scan_advance(s)) ELSE s
\* the scanner after the loop of Scanner::identifier
RECURSIVE skip_identifier(_)
skip_identifier(s) ==
    IF is_alpha(scan_peek(s)) \/ is_digit(scan_peek(s))
    THEN skip_identifier(scan_advance(s)) ELSE s

\* a scanner function's result: the scanner after it and the token it made
Scanned(s, token_type) == [scanner |-> s, token |-> make_token(s, token_type)]

\* Scanner::identifier
scan_identifier(s) ==
    Then(skip_identifier(s), LAMBDA s1 : Scanned(s1, identifier_type(s1)))

\* Scanner::number
scan_number(s) ==
    Then(skip_digits(s), LAMBDA s1 :
        IF scan_peek(s1) = "."
        THEN IF peek_next_panics(s1) THEN Scanned([s1 EXCEPT !.panicked = TRUE], "Error")
             ELSE IF is_digit(Unwrap(peek_next(s1)))
             THEN Scanned(skip_digits(scan_advance(s1)), "Number")
             ELSE Scanned(s1, "Number")
        ELSE Scanned(s1, "Number"))

\* Scanner::string
RECURSIVE scan_string(_)
scan_string(s) ==
    IF is_at_end(s) THEN Scanned(s, "Error")
    ELSE LET c == scan_peek(s)
             s1 == IF c = "\n" THEN [s EXCEPT !.line = @ + 1] ELSE s
         IN  IF c # "\"" THEN scan_string(scan_advance(s1))
             ELSE Scanned(scan_advance(s1), "String")

\* the token of a character that is `single` alone and `double` before '='
one_or_two(s, single, double) ==
    LET m == match_char(s, "=")
    IN  Scanned(m.scanner, IF m.matched THEN double ELSE single)

\* Scanner::scan_token
\* the match on c of Scanner::scan_token, s being the scanner after advance()
scan_char(s, c) ==
    IF is_alpha(c) THEN scan_identifier(s)
    ELSE IF is_digit(c) THEN scan_number(s)
    ELSE CASE c = "(" -> Scanned(s, "LeftParen")
           [] c = ")" -> Scanned(s, "RightParen")
           [] c = "{" -> Scanned(s, "LeftBrace")
           [] c = "}" -> Scanned(s, "RightBrace")
           [] c = ";" -> Scanned(s, "Semicolon")
           [] c = "," -> Scanned(s, "Comma")
           [] c = "." -> Scanned(s, "Dot")
           [] c = "-" -> Scanned(s, "Minus")
           [] c = "+" -> Scanned(s, "Plus")
           [] c = "/" -> Scanned(s, "Slash")
           [] c = "*" -> Scanned(s, "Star")
           [] c = "!" -> one_or_two(s, "Bang", "BangEqual")
           [] c = "=" -> one_or_two(s, "Equal", "EqualEqual")
           [] c = "<" -> one_or_two(s, "Less", "LessEqual")
           [] c = ">" -> one_or_two(s, "Greater", "GreaterEqual")
           [] c = "\"" -> scan_string(s)
           [] OTHER -> Scanned(s, "Error")

\* Scanner::scan_token
scan_token(s0) ==
    Then(skip_whitespace(s0), LAMBDA s1 :
        IF s1.panicked THEN Scanned(s1, "Error")
        ELSE IF is_at_end(s1) THEN Scanned([s1 EXCEPT !.start = s1.current], "Eof")
        ELSE scan_char(scan_advance([s1 EXCEPT !.start = s1.current]),
                       get_char_at_index(s1, s1.current)))

-----------------------------------------------------------------------------
(* compiler.rs: struct Compiler as one record c, every method an operator  *)
(* from the compiler before the call to the compiler after it.  out is     *)
(* what the compiler has printed; panicked is set by a Rust panic, after   *)
(* which nothing more is printed or scanned.  defined is a history of the  *)
(* compilation, not a field of the struct: for each local that             *)
(* define_variable has marked initialized, the code offset at which that   *)
(* happened and the local's index in locals.                               *)

\* enum Precedence, as u8
PREC_NONE == 0
PREC_ASSIGNMENT == 1
PREC_OR == 2
PREC_AND == 3
PREC_EQUALITY == 4
PREC_COMPARISON == 5
PREC_TERM == 6
PREC_FACTOR == 7
PREC_UNARY == 8
PREC_CALL == 9
PREC_PRIMARY == 10
\* from_u8 with every arm one level low: the right operand of a binary
\* operator would be parsed at the operator's own level
precedence_one_low(i) == IF i \in 1..10 THEN i - 1 ELSE PREC_PRIMARY
\* Precedence::from_u8
precedence_from_u8(i) == IF i \in 0..9 THEN i ELSE PREC_PRIMARY

\* Parser::new
NewParser ==
    [current |-> DefaultToken, previous |-> DefaultToken,
     had_error |-> FALSE, panic_mode |-> FALSE]
\* Local { name, depth }
Local(name, depth) == [name |-> name, depth |-> depth]

\* Compiler::new.  locals[i + 1] is the source's locals[i]; slot 0 is taken by
\* the local_count += 1 that follows the construction.
\* pending holds the locals of fun_declaration() and function() while the
\* function of a declaration of the script is compiled in steps: the Compiler
\* made for it and global_index.
compiler_without_slot_zero(scanner, function_type, out) ==
    [scanner |-> scanner, parser |-> NewParser, local_count |-> 0, scope_depth |-> 0,
     locals |-> [i \in 1..U8 |-> Local(DefaultToken, Some(0))],
     function |-> NewFunction, function_type |-> function_type,
     out |-> out, panicked |-> FALSE, defined |-> <<>>, pending |-> None]
NewCompiler(scanner, function_type, out) ==
    [scanner |-> scanner, parser |-> NewParser, local_count |-> 1, scope_depth |-> 0,
     locals |-> [i \in 1..U8 |-> Local(DefaultToken, Some(0))],
     function |-> NewFunction, function_type |-> function_type,
     out |-> out, panicked |-> FALSE, defined |-> <<>>, pending |-> None]

\* the compiler after a Rust panic
CompilerPanic(c) == [c EXCEPT !.panicked = TRUE]
\* Compiler::current_chunk
current_chunk(c) == c.function.chunk
\* the length of the current chunk's code
code_len(c) == Len(c.function.chunk.code)
\* &self.scanner.source[token.start..(token.start + token.length)]
Lexeme(c, token) == Slice(c.scanner.source, token.start, token.start + token.length)

\* Compiler::patch_parser
patch_parser(c, previous, current) ==
    [c EXCEPT !.parser.previous = previous, !.parser.current = current]

\* Compiler::error_at
error_at(c, token, message) ==
    IF c.parser.panic_mode \/ c.panicked THEN c
    ELSE [c EXCEPT !.parser.panic_mode = TRUE,
                   !.parser.had_error = TRUE,
                   !.out = Append(@,
                        [kind |-> "compile_error", line |-> token.line,
                         at |-> IF token.token_type = "Eof" THEN " at end"
                                ELSE IF token.token_type = "Error" THEN ""
                                ELSE " at " \o Lexeme(c, token),
                         message |-> message])]
\* Compiler::error
error(c, message) == error_at(c, c.parser.previous, message)
\* Compiler::error_at_current
error_at_current(c, message) == error_at(c, c.parser.current, message)

\* the loop of Compiler::advance
RECURSIVE advance_loop(_)
advance_loop(c) ==
    Then(scan_token(c.scanner), LAMBDA r :
        LET c1 == [c EXCEPT !.scanner = r.scanner, !.parser.current = r.token]
        IN  IF r.scanner.panicked THEN CompilerPanic([c EXCEPT !.scanner = r.scanner])
            ELSE IF r.token.token_type = "Error"
            THEN advance_loop(error_at_current(c1, "error"))
            ELSE c1)
\* Compiler::advance
advance(c) ==
    IF c.panicked THEN c
    ELSE advance_loop([c EXCEPT !.parser.previous = c.parser.current])

\* Compiler::emit_byte; byte is a u8
emit_byte(c, byte) ==
    IF c.panicked THEN c
    ELSE [c EXCEPT !.function.chunk = write_code(@, byte, c.parser.previous.line)]
\* Compiler::emit_bytes
emit_bytes(c, byte1, byte2) == emit_byte(emit_byte(c, byte1), byte2)
\* Compiler::emit_jump: the compiler after it; the offset it returns is
\* jump_offset of that compiler
emit_jump(c, instruction) == emit_byte(emit_byte(emit_byte(c, instruction), 255), 255)
jump_offset(c) == code_len(c) - 2

\* patch_jump that writes the low byte of the distance first
patch_jump_low_byte_first(c, offset) ==
    LET jump_size == code_len(c) - offset - 2
        c1 == IF jump_size > U16_MAX THEN error(c, "Too much code to jump over.") ELSE c
    IN  IF c.panicked THEN c
        ELSE [c1 EXCEPT !.function.chunk.code[offset + 1] = jump_size % 256,
                        !.function.chunk.code[offset + 2] = (jump_size \div 256) % 256]

\* Compiler::patch_jump
patch_jump(c, offset) ==
    LET jump_size == code_len(c) - offset - 2
        c1 == IF jump_size > U16_MAX THEN error(c, "Too much code to jump over.") ELSE c
    IN  IF c.panicked THEN c
        ELSE [c1 EXCEPT !.function.chunk.code[offset + 1] = (jump_size \div 256) % 256,
                        !.function.chunk.code[offset + 2] = jump_size % 256]

\* Compiler::emit_loop
emit_loop(c, loop_start) ==
    LET c1 == emit_byte(c, OP_LOOP)
        offset == code_len(c1) - loop_start + 2
        c2 == IF offset > U16_MAX THEN error(c1, "Loop body too large.") ELSE c1
    IN  emit_bytes(c2, (offset \div 256) % 256, offset % 256)

\* Compiler::emit_return
emit_return(c) == emit_byte(c, OP_RETURN)
\* Compiler::end_compiler: the compiler after it; the function it returns is
\* the function field of that compiler
end_compiler(c) == emit_return(c)

\* Compiler::begin_scope
begin_scope(c) == [c EXCEPT !.scope_depth = @ + 1]

\* the loop of Compiler::end_scope: it emits a POP for every local from the
\* top down whose depth is greater than scope_depth, and stops at the first
\* that is not (or at local_count = 0); depth.unwrap() panics on a local
\* without depth.  local_count is left at the least n such that every local
\* above n goes.
end_scope_loop(c) ==
    LET goes(i) ==
            /\ c.locals[i].depth # None
            /\ Unwrap(c.locals[i].depth) > c.scope_depth
        stops == {n \in 0..c.local_count : \A i \in (n + 1)..c.local_count : goes(i)}
        n == CHOOSE m \in stops : \A k \in stops : m <= k
        popped == c.local_count - n
        c1 == [c EXCEPT !.function.chunk.code = @ \o [i \in 1..popped |-> OP_POP],
                        !.function.chunk.lines =
                            @ \o [i \in 1..popped |-> c.parser.previous.line],
                        !.local_count = n]
    IN  IF c.panicked THEN c
        ELSE IF n > 0 /\ c.locals[n].depth = None THEN CompilerPanic(c1)
        ELSE c1
\* end_scope that removes the locals of every scope, not of the one that ends
end_scope_of_every_scope(c) ==
    [end_scope_loop([c EXCEPT !.scope_depth = 0]) EXCEPT !.scope_depth = c.scope_depth - 1]

\* Compiler::end_scope
end_scope(c) == end_scope_loop([c EXCEPT !.scope_depth = @ - 1])

\* Compiler::check
check(c, token_type) == c.parser.current.token_type = token_type
\* Compiler::consume
consume(c, token_type, message) ==
    IF check(c, token_type) THEN advance(c) ELSE error_at_current(c, message)
\* Compiler::match_token is check followed, when it holds, by advance

\* Chunk::write_number, write_string, write_function: the chunk after it; the
\* index returned is last_constant of that chunk
write_constant(chunk, value) == [chunk EXCEPT !.constants = Append(@, value)]
last_constant(chunk) == Len(chunk.constants) - 1
\* the compiler after current_chunk().write_*(value) and
\* emit_bytes(opcode, index as u8)
emit_with_constant(c, opcode, value) ==
    LET c1 == [c EXCEPT !.function.chunk = write_constant(@, value)]
    IN  emit_bytes(c1, opcode, last_constant(current_chunk(c1)) % U8)

\* Compiler::literal
literal(c, can_assign) ==
    LET token == c.parser.previous.token_type
    IN  IF token = "True" THEN emit_byte(c, OP_TRUE)
        ELSE IF token = "False" THEN emit_byte(c, OP_FALSE)
        ELSE IF token = "Nil" THEN emit_byte(c, OP_NIL)
        ELSE c

\* Compiler::string
string(c, can_assign) ==
    LET c1 == emit_byte(c, OP_CONSTANT)
        start == c.parser.previous.start + 1
        end == start + c.parser.previous.length - 2
        c2 == [c1 EXCEPT !.function.chunk =
                    write_constant(@, String(Slice(c.scanner.source, start, end)))]
    IN  emit_byte(c2, last_constant(current_chunk(c2)) % U8)

\* str::parse::<f64> of a lexeme the scanner made: digits, then possibly a
\* point and digits
DigitValue(ch) == CHOOSE d \in 0..9 : Digit(d) = ch
RECURSIVE parse_digits(_, _)
parse_digits(text, acc) ==
    IF Len(text) = 0 THEN acc
    ELSE parse_digits(SubSeq(text, 2, Len(text)), acc * 10 + DigitValue(SubSeq(text, 1, 1)))
RECURSIVE point_offset(_, _)
point_offset(text, i) ==
    IF i >= Len(text) THEN Len(text)
    ELSE IF SubSeq(text, i + 1, i + 1) = "." THEN i
    ELSE point_offset(text, i + 1)
RECURSIVE Pow10(_)
Pow10(n) == IF n = 0 THEN 1 ELSE 10 * Pow10(n - 1)
parse_f64(text) ==
    LET p == point_offset(text, 0)
        whole == parse_digits(Slice(text, 0, p), 0)
        digits == IF p < Len(text) THEN Slice(text, p + 1, Len(text)) ELSE ""
    IN  Ratio(whole * Pow10(Len(digits)) + parse_digits(digits, 0), Pow10(Len(digits)))

\* Compiler::number; the lexemes of Number tokens always parse
number(c, can_assign) ==
    LET c1 == emit_byte(c, OP_CONSTANT)
        c2 == [c1 EXCEPT !.function.chunk =
                    write_constant(@, parse_f64(Lexeme(c, c.parser.previous)))]
    IN  emit_byte(c2, last_constant(current_chunk(c2)) % U8)

\* Compiler::identifiers_equal
identifiers_equal(c, a, b) == a.length = b.length /\ Lexeme(c, a) = Lexeme(c, b)

\* the loop of Compiler::resolve_local from idx down: the compiler after it
\* and the Option it returns
RECURSIVE resolve_local_from(_, _, _)
resolve_local_from(c, name, idx) ==
    IF idx < 0 THEN [compiler |-> c, index |-> None]
    ELSE IF identifiers_equal(c, name, c.locals[idx + 1].name)
    THEN [compiler |-> IF c.locals[idx + 1].depth = None
                       THEN error(c, "Can't read local variable in its own initializer")
                       ELSE c,
          index |-> Some(idx)]
    ELSE resolve_local_from(c, name, idx - 1)
\* Compiler::resolve_local
resolve_local(c, name) == resolve_local_from(c, name, c.local_count - 1)

\* Compiler::add_local.  local_count is a u8, so the comparison with 256 is
\* never true; local_count += 1 overflows at 255
add_local(c, name) ==
    LET c1 == [c EXCEPT !.locals[c.local_count + 1] = Local(name, None)]
    IN  IF c.local_count = U8 - 1
        THEN IF overflow_checks THEN CompilerPanic(c1) ELSE [c1 EXCEPT !.local_count = 0]
        ELSE [c1 EXCEPT !.local_count = @ + 1]

\* the loop of Compiler::declare_variable from idx down.  The test
\* `local.depth == None && local.depth.unwrap() < scope_depth` panics for a
\* local without depth and is false for every other, so the name is compared
\* with every local down to the first without depth; error() prints for the
\* first equal name only (panic_mode).
declare_variable_from(c, name, idx) ==
    LET without_depth == {i \in 0..idx : c.locals[i + 1].depth = None}
        compared(i) == \A k \in without_depth : i > k
        reported ==
            \E i \in 0..idx :
                compared(i) /\ identifiers_equal(c, name, c.locals[i + 1].name)
        c1 == IF reported
              THEN error(c, "Already a variable with this name in this scope.")
              ELSE c
    IN  IF c.panicked THEN c
        ELSE IF without_depth # {} THEN CompilerPanic(c1)
        ELSE c1
\* Compiler::declare_variable
declare_variable(c) ==
    IF c.scope_depth = 0 THEN c
    ELSE LET name == c.parser.previous
             c1 == declare_variable_from(c, name, c.local_count - 1)
         IN  IF c1.panicked THEN c1 ELSE add_local(c1, name)

\* Compiler::parse_variable: the compiler after it and the u8 it returns
parse_variable(c, message) ==
    Then(declare_variable(consume(c, "Identifier", message)), LAMBDA c1 :
        IF c1.scope_depth > 0 THEN [compiler |-> c1, index |-> 0]
        ELSE LET c2 == [c1 EXCEPT !.function.chunk =
                            write_constant(@, String(Lexeme(c1, c1.parser.previous)))]
             IN  [compiler |-> c2, index |-> last_constant(current_chunk(c2)) % U8])

\* Compiler::mark_initialized; locals[local_count - 1] with local_count = 0
\* is an index out of bounds
mark_initialized(c) ==
    IF c.scope_depth = 0 THEN c
    ELSE IF c.local_count = 0 THEN CompilerPanic(c)
    ELSE [c EXCEPT !.locals[c.local_count].depth = Some(c.scope_depth)]

\* Compiler::define_variable
define_variable(c, global_index) ==
    IF c.scope_depth > 0
    THEN [mark_initialized(c) EXCEPT !.defined =
                Append(@, [offset |-> code_len(c), slot |-> c.local_count - 1])]
    ELSE emit_bytes(c, OP_DEFINE_GLOBAL, global_index)

\* the ParseRule table that Compiler::new builds; it has a rule for every
\* TokenType, so a lookup never fails.  The prefix and the infix function are
\* named by their method.
rule_prefix(token_type) ==
    CASE token_type = "LeftParen" -> Some("grouping")
      [] token_type \in {"Minus", "Bang"} -> Some("unary")
      [] token_type = "Identifier" -> Some("variable")
      [] token_type = "String" -> Some("string")
      [] token_type = "Number" -> Some("number")
      [] token_type \in {"False", "Nil", "True"} -> Some("literal")
      [] OTHER -> None
rule_infix(token_type) ==
    CASE token_type \in {"Minus", "Plus", "Slash", "Star", "BangEqual", "EqualEqual",
                         "Greater", "GreaterEqual", "Less", "LessEqual"} -> Some("binary")
      [] token_type = "And" -> Some("and_")
      [] token_type = "Or" -> Some("or_")
      [] OTHER -> None
rule_precedence(token_type) ==
    CASE token_type \in {"Minus", "Plus"} -> PREC_TERM
      [] token_type \in {"Slash", "Star"} -> PREC_FACTOR
      [] token_type \in {"BangEqual", "EqualEqual"} -> PREC_EQUALITY
      [] token_type \in {"Greater", "GreaterEqual", "Less", "LessEqual"} -> PREC_COMPARISON
      [] token_type = "And" -> PREC_AND
      [] token_type = "Or" -> PREC_OR
      [] OTHER -> PREC_NONE

RECURSIVE parse_precedence(_, _)
RECURSIVE infix_loop(_, _, _)

\* Compiler::expression
expression(c) == parse_precedence(c, PREC_ASSIGNMENT)

\* Compiler::named_variable
named_variable(c, name, can_assign) ==
    LET r == resolve_local(c, name)
        is_local == IsSome(r.index)
        c1 == IF is_local THEN r.compiler
              ELSE [r.compiler EXCEPT !.function.chunk =
                        write_constant(@, String(Lexeme(c, name)))]
        index == IF is_local THEN Unwrap(r.index) ELSE last_constant(current_chunk(c1))
    IN  IF can_assign /\ check(c1, "Equal")
        THEN emit_bytes(expression(advance(c1)),
                        IF is_local THEN OP_SET_LOCAL ELSE OP_SET_GLOBAL, index % U8)
        ELSE emit_bytes(c1, IF is_local THEN OP_GET_LOCAL ELSE OP_GET_GLOBAL, index % U8)

\* Compiler::variable
variable(c, can_assign) == named_variable(c, c.parser.previous, can_assign)

\* Compiler::unary
unary(c, can_assign) ==
    LET op_type == c.parser.previous.token_type
    IN  Then(parse_precedence(c, PREC_UNARY), LAMBDA c1 :
            IF op_type = "Bang" THEN emit_byte(c1, OP_NOT)
            ELSE IF op_type = "Minus" THEN emit_byte(c1, OP_NEGATE)
            ELSE c1)

\* Compiler::binary
binary(c, can_assign) ==
    LET op_type == c.parser.previous.token_type
    IN  Then(parse_precedence(c, precedence_from_u8(rule_precedence(op_type) + 1)),
             LAMBDA c1 :
                CASE op_type = "Plus" -> emit_byte(c1, OP_ADD)
                  [] op_type = "Slash" -> emit_byte(c1, OP_DIVIDE)
                  [] op_type = "Star" -> emit_byte(c1, OP_MULTIPLY)
                  [] op_type = "Minus" -> emit_byte(c1, OP_SUBTRACT)
                  [] op_type = "BangEqual" -> emit_bytes(c1, OP_EQUAL, OP_NOT)
                  [] op_type = "EqualEqual" -> emit_byte(c1, OP_EQUAL)
                  [] op_type = "Greater" -> emit_byte(c1, OP_GREATER)
                  [] op_type = "GreaterEqual" -> emit_bytes(c1, OP_LESS, OP_NOT)
                  [] op_type = "Less" -> emit_byte(c1, OP_LESS)
                  [] op_type = "LessEqual" -> emit_bytes(c1, OP_GREATER, OP_NOT))

\* Compiler::grouping
grouping(c, can_assign) ==
    consume(expression(c), "RightParen", "Expect ')' after expression.")

\* Compiler::and_
and_(c, can_assign) ==
    LET c1 == emit_jump(c, OP_JUMP_IF_FALSE)
        end_jump == jump_offset(c1)
    IN  patch_jump(parse_precedence(emit_byte(c1, OP_POP), PREC_AND), end_jump)

\* or_ without the JUMP over the right operand: the code of `and`
or_without_jump(c, can_assign) ==
    LET c1 == emit_jump(c, OP_JUMP_IF_FALSE)
        end_jump == jump_offset(c1)
    IN  patch_jump(parse_precedence(emit_byte(c1, OP_POP), PREC_OR), end_jump)

\* Compiler::or_
or_(c, can_assign) ==
    LET c1 == emit_jump(c, OP_JUMP_IF_FALSE)
        else_jump == jump_offset(c1)
        c2 == emit_jump(c1, OP_JUMP)
        end_jump == jump_offset(c2)
        c3 == emit_byte(patch_jump(c2, else_jump), OP_POP)
    IN  patch_jump(parse_precedence(c3, PREC_OR), end_jump)

\* prefix_func(self, can_assign) and infix_func(self, can_assign)
call_rule(func, c, can_assign) ==
    CASE func = "grouping" -> grouping(c, can_assign)
      [] func = "unary" -> unary(c, can_assign)
      [] func = "binary" -> binary(c, can_assign)
      [] func = "variable" -> variable(c, can_assign)
      [] func = "string" -> string(c, can_assign)
      [] func = "number" -> number(c, can_assign)
      [] func = "literal" -> literal(c, can_assign)
      [] func = "and_" -> and_(c, can_assign)
      [] func = "or_" -> or_(c, can_assign)

\* the loop of Compiler::parse_precedence
infix_loop(c, precedence, can_assign) ==
    LET token_type == c.parser.current.token_type
    IN  IF c.panicked \/ precedence > rule_precedence(token_type) THEN c
        ELSE IF ~IsSome(rule_infix(token_type)) THEN advance(c)
        ELSE Then(call_rule(Unwrap(rule_infix(token_type)), advance(c), can_assign),
                  LAMBDA c2 :
                    infix_loop(IF can_assign /\ check(c2, "Equal")
                               THEN error(advance(c2), "Invalid assignment target.")
                               ELSE c2,
                               precedence, can_assign))

\* Compiler::parse_precedence
parse_precedence(c, precedence) ==
    Then(advance(c), LAMBDA c1 :
        LET prefix_func == rule_prefix(c1.parser.previous.token_type)
            can_assign == precedence <= PREC_ASSIGNMENT
        IN  IF c1.panicked THEN c1
            ELSE IF ~IsSome(prefix_func) THEN error(c1, "Expect expression.")
            ELSE infix_loop(call_rule(Unwrap(prefix_func), c1, can_assign),
                            precedence, can_assign))

RECURSIVE declaration(_)
RECURSIVE statement(_)

\* the loop of Compiler::block, which ends by its own test within n
\* iterations: one iteration (the test of the while and the declaration), then
\* the rest in eight runs, each continuing from the compiler the run before left
RECURSIVE block_iterations(_, _)
block_chunks(c0, n) ==
    IF n <= 1 THEN c0
    ELSE LET m  == (n + 6) \div 8
             c1 == block_iterations(c0, m)
             c2 == block_iterations(c1, m)
             c3 == block_iterations(c2, m)
             c4 == block_iterations(c3, m)
             c5 == block_iterations(c4, m)
             c6 == block_iterations(c5, m)
             c7 == block_iterations(c6, m)
             c8 == block_iterations(c7, m)
         IN  <<c0, c1, c2, c3, c4, c5, c6, c7, c8>>[9]
block_iterations(c, n) ==
    block_chunks(IF c.panicked \/ check(c, "RightBrace") \/ check(c, "Eof") THEN c
                 ELSE declaration(c), n)
block_loop(c) == block_iterations(c, Len(c.scanner.source) - c.scanner.current + 1)
\* Compiler::block
block(c) == consume(block_loop(c), "RightBrace", "Expect '}' after block.")

\* expression_statement that reports instead of parsing: it takes no token
expression_statement_without_expression(c) ==
    emit_byte(error_at_current(c, "Expect expression."), OP_POP)

\* Compiler::expression_statement
expression_statement(c) ==
    emit_byte(consume(expression(c), "Semicolon", "Expect ';' after expression."), OP_POP)

\* if_statement without the POP at the start of the else branch: a false
\* condition stays on the stack
if_statement_without_else_pop(c) ==
    Then(emit_jump(consume(expression(consume(c, "LeftParen", "Expect '(' after 'if'.")),
                           "RightParen", "Expect ')' after condition."),
                   OP_JUMP_IF_FALSE),
         LAMBDA c3 :
    Then(emit_jump(statement(emit_byte(c3, OP_POP)), OP_JUMP),
         LAMBDA c5 :
    Then(patch_jump(c5, jump_offset(c3)),
         LAMBDA c6 :
            patch_jump(IF check(c6, "Else") THEN statement(advance(c6)) ELSE c6,
                       jump_offset(c5)))))

\* Compiler::if_statement
if_statement(c) ==
    Then(emit_jump(consume(expression(consume(c, "LeftParen", "Expect '(' after 'if'.")),
                           "RightParen", "Expect ')' after condition."),
                   OP_JUMP_IF_FALSE),
         LAMBDA c3 :
    Then(emit_jump(statement(emit_byte(c3, OP_POP)), OP_JUMP),
         LAMBDA c5 :
    Then(emit_byte(patch_jump(c5, jump_offset(c3)), OP_POP),
         LAMBDA c6 :
            patch_jump(IF check(c6, "Else") THEN statement(advance(c6)) ELSE c6,
                       jump_offset(c5)))))

\* Compiler::while_statement
while_statement(c) ==
    Then(emit_jump(consume(expression(consume(c, "LeftParen", "Expect '(' after 'while'.")),
                           "RightParen", "Expect ')' after condition."),
                   OP_JUMP_IF_FALSE),
         LAMBDA c3 :
            LET loop_start == code_len(c)
                exit_jump == jump_offset(c3)
                c5 == emit_loop(statement(emit_byte(c3, OP_POP)), loop_start)
            IN  emit_byte(patch_jump(c5, exit_jump), OP_POP))

\* Compiler::var_declaration
var_declaration(c) ==
    Then(parse_variable(c, "Expect variable name."),
         LAMBDA r :
            LET c1 == r.compiler
                c2 == IF check(c1, "Equal") THEN expression(advance(c1))
                      ELSE emit_byte(c1, OP_NIL)
            IN  define_variable(
                    consume(c2, "Semicolon", "Expect ';' after variable declaration."),
                    r.index))

\* Compiler::for_statement
for_statement(c) ==
    Then(consume(begin_scope(c), "LeftParen", "Expect '(' after 'for'."),
         LAMBDA c1 :
    Then(IF check(c1, "Semicolon") THEN advance(c1)
         ELSE IF check(c1, "Var") THEN var_declaration(advance(c1))
         ELSE expression_statement(c1),
         LAMBDA c2 :
    Then(IF check(c2, "Semicolon") THEN advance(c2)
         ELSE consume(expression(c2), "Semicolon", "Expect ';' after loop condition."),
         LAMBDA c3 :
            LET loop_start0 == code_len(c2)
                has_condition == ~check(c2, "Semicolon")
                c4 == IF has_condition THEN emit_jump(c3, OP_JUMP_IF_FALSE) ELSE c3
                exit_jump == jump_offset(c4)
                c5 == IF has_condition THEN emit_byte(c4, OP_POP) ELSE c4
                has_increment == ~check(c5, "RightParen")
                c6 == emit_jump(c5, OP_JUMP)
                body_jump == jump_offset(c6)
                increment_start == code_len(c6)
                c8 == IF has_increment
                      THEN patch_jump(
                            emit_loop(consume(emit_byte(expression(c6), OP_POP), "RightParen",
                                              "Expect ')' after for clauses."),
                                      loop_start0),
                            body_jump)
                      ELSE advance(c5)
                loop_start == IF has_increment THEN increment_start ELSE loop_start0
            IN  Then(emit_loop(statement(c8), loop_start),
                     LAMBDA c9 :
                        end_scope(IF has_condition
                                  THEN emit_byte(patch_jump(c9, exit_jump), OP_POP)
                                  ELSE c9)))))

\* one iteration of the parameter loop of Compiler::function.  self is the
\* enclosing compiler and nested the Compiler it has made; what either prints
\* goes to nested.out.  more is whether match_token(Comma) held.
parameter(self, nested) ==
    LET full == nested.function.arity = U8 - 1
        reported == error_at_current([self EXCEPT !.out = nested.out],
                                     "Can't have more than 255 parameters.")
        self1 == IF full THEN reported ELSE self
        n1 == IF full THEN [nested EXCEPT !.out = reported.out, !.function.arity = 0]
              ELSE [nested EXCEPT !.function.arity = @ + 1]
    IN  IF full /\ overflow_checks
        THEN [self |-> self1, compiler |-> CompilerPanic([nested EXCEPT !.out = reported.out]),
              more |-> FALSE]
        ELSE Then(parse_variable(n1, "Expect parameter name."),
                  LAMBDA r :
             Then(define_variable(r.compiler, r.index),
                  LAMBDA n2 :
                    IF check(n2, "Comma")
                    THEN [self |-> self1, compiler |-> advance(n2), more |-> TRUE]
                    ELSE [self |-> self1, compiler |-> n2, more |-> FALSE]))
\* the parameter loop of Compiler::function
RECURSIVE parameters(_, _)
parameters(self, nested) ==
    IF nested.panicked THEN [self |-> self, compiler |-> nested]
    ELSE Then(parameter(self, nested), LAMBDA p :
            IF p.more THEN parameters(p.self, p.compiler)
            ELSE [self |-> p.self, compiler |-> p.compiler])

\* Compiler::function up to its parameter loop: the enclosing compiler and the
\* Compiler made for the function
function_begin(c, function_type) ==
    LET n0 == patch_parser(NewCompiler(c.scanner, function_type, c.out),
                           c.parser.previous, c.parser.current)
        n1 == IF function_type = "Function"
              THEN [n0 EXCEPT !.function.name = Some(Lexeme(n0, n0.parser.previous))]
              ELSE n0
    IN  [self |-> c,
         compiler |-> consume(begin_scope(n1), "LeftParen", "Expect '(' after function name.")]
\* Compiler::function from the end of its parameter loop: the enclosing
\* compiler after it
function_end(self, nested) ==
    Then(end_compiler(block(
            consume(consume(nested, "RightParen", "Expect ')' after parameters."),
                    "LeftBrace", "Expect '{' before function body."))),
         LAMBDA n5 :
            [patch_parser(emit_with_constant(self, OP_CONSTANT, n5.function),
                          n5.parser.previous, n5.parser.current)
                EXCEPT !.scanner = n5.scanner, !.out = n5.out,
                       !.panicked = n5.panicked])
\* Compiler::function
function(c, function_type) ==
    Then(function_begin(c, function_type), LAMBDA b :
    Then(IF ~check(b.compiler, "RightParen") THEN parameters(b.self, b.compiler) ELSE b,
         LAMBDA p : function_end(p.self, p.compiler)))

\* Compiler::fun_declaration
fun_declaration(c) ==
    Then(parse_variable(c, "Expect function name."),
         LAMBDA r :
            define_variable(function(mark_initialized(r.compiler), "Function"), r.index))

\* the loop of Compiler::synchronize
RECURSIVE synchronize_loop(_)
synchronize_loop(c) ==
    IF c.panicked \/ c.parser.current.token_type = "Eof" THEN c
    ELSE IF c.parser.previous.token_type = "Semicolon" THEN c
    ELSE IF c.parser.current.token_type \in
                {"Class", "Fun", "Var", "For", "If", "While", "Print", "Return"} THEN c
    ELSE synchronize_loop(advance(c))
\* Compiler::synchronize
synchronize(c) == synchronize_loop([c EXCEPT !.parser.panic_mode = FALSE])

\* Compiler::statement
statement(c) ==
    IF check(c, "Print")
    THEN emit_byte(consume(expression(advance(c)), "Semicolon", "Expect ';' after value."),
                   OP_PRINT)
    ELSE IF check(c, "If") THEN if_statement(advance(c))
    ELSE IF check(c, "While") THEN while_statement(advance(c))
    ELSE IF check(c, "For") THEN for_statement(advance(c))
    ELSE IF check(c, "LeftBrace") THEN end_scope(block(begin_scope(advance(c))))
    ELSE expression_statement(c)

\* Compiler::declaration; the class arm is todo!()
declaration(c) ==
    Then(IF check(c, "Var") THEN var_declaration(advance(c))
         ELSE IF check(c, "Fun") THEN fun_declaration(advance(c))
         ELSE IF check(c, "Class") THEN CompilerPanic(advance(c))
         ELSE statement(c),
         LAMBDA c1 :
            IF c1.panicked THEN c1
            ELSE IF c1.parser.panic_mode THEN synchronize(c1)
            ELSE c1)

\* Compiler::compile up to its loop: the flags are reset and the first token
\* is scanned
begin_compile(c) ==
    advance([c EXCEPT !.parser.had_error = FALSE, !.parser.panic_mode = FALSE])
\* Compiler::compile from its loop's end: the Eof token is matched, the
\* function is ended, and None or Some(function) is returned
finish_compile(c) == end_compiler(advance(c))
compile_result(c) == IF c.parser.had_error THEN None ELSE Some(c.function)
\* Compiler::compile
RECURSIVE compile_loop(_)
compile_loop(c) ==
    IF c.panicked THEN c
    ELSE IF check(c, "Eof") THEN finish_compile(c)
    ELSE compile_loop(declaration(c))
compile(c) == compile_loop(begin_compile(c))

-----------------------------------------------------------------------------
(* SpecVM: run() over a script function.  The state after construction is  *)
(* the one interpret() leaves when compile() has returned the function:    *)
(* the script's closure is on the stack and in frame 0.  The functions are *)
(* assembled by hand, so that every handler of run() is exercised,         *)
(* including those for opcodes that compiler.rs never emits.               *)

\* the components of the VM record v become the next state
SetVM(v) ==
    /\ value_stack' = v.value_stack
    /\ frames' = v.frames
    /\ frame_count' = v.frame_count
    /\ globals' = v.globals
    /\ open_upvalue_head' = v.open_upvalue_head
    /\ instances' = v.instances
    /\ stdout' = v.stdout
    /\ result' = v.result

\* a function whose code is all on line 1
Fn(name, arity, upvalue_count, code, constants) ==
    FunctionV(arity, [code |-> code, lines |-> [i \in 1..Len(code) |-> 1],
                      constants |-> constants], name, upvalue_count)
Script(code, constants) == Fn(None, 0, 0, code, constants)

\* the operands of the two-operand scripts
Operands ==
    {Nil, Boolean(TRUE), Boolean(FALSE), Number(1), Number(2), String("a"), String("b"),
     Class("P"), NativeFunction("clock", 0)}
\* the instruction under test of the two-operand scripts
Tails ==
    {<<OP_ADD>>, <<OP_SUBTRACT>>, <<OP_MULTIPLY>>, <<OP_DIVIDE>>, <<OP_EQUAL>>,
     <<OP_GREATER>>, <<OP_LESS>>, <<OP_NEGATE>>, <<OP_NOT>>, <<OP_POP>>,
     <<OP_CALL, 0>>, <<OP_CALL, 1>>, <<OP_GET_PROPERTY, 1>>, <<OP_SET_PROPERTY, 1>>,
     <<OP_DEFINE_GLOBAL, 1>>, <<OP_GET_GLOBAL, 1>>, <<OP_SET_GLOBAL, 1>>,
     <<OP_CLOSURE, 1>>, <<OP_JUMP_IF_FALSE, 0, 1>>}
\* push a, push b, the instruction, print what it left, return
OperandScript(a, b, tail) ==
    Script(<<OP_CONSTANT, 0, OP_CONSTANT, 1>> \o tail \o <<OP_PRINT, OP_NIL, OP_RETURN>>,
           <<a, b>>)
OperandScripts == {OperandScript(a, b, tail) : a \in Operands, b \in Operands, tail \in Tails}

\* fun make() { var i = 0; fun inc() { i = i + 1; print i; } return inc; }
\* var a = make(); var b = make(); a(); a(); b(); a();
IncFn ==
    Fn(Some("inc"), 0, 1,
       <<OP_GET_UPVALUE, 0, OP_CONSTANT, 0, OP_ADD, OP_SET_UPVALUE, 0, OP_POP,
         OP_GET_UPVALUE, 0, OP_PRINT, OP_NIL, OP_RETURN>>,
       <<Number(1)>>)
MakeFn ==
    Fn(Some("make"), 0, 0,
       <<OP_CONSTANT, 0, OP_CLOSURE, 1, 1, 1, OP_GET_LOCAL, 2, OP_RETURN>>,
       <<Number(0), IncFn>>)
CounterScript ==
    Script(<<OP_CLOSURE, 0, OP_DEFINE_GLOBAL, 1,
             OP_GET_GLOBAL, 1, OP_CALL, 0, OP_DEFINE_GLOBAL, 2,
             OP_GET_GLOBAL, 1, OP_CALL, 0, OP_DEFINE_GLOBAL, 3,
             OP_GET_GLOBAL, 2, OP_CALL, 0, OP_POP,
             OP_GET_GLOBAL, 2, OP_CALL, 0, OP_POP,
             OP_GET_GLOBAL, 3, OP_CALL, 0, OP_POP,
             OP_GET_GLOBAL, 2, OP_CALL, 0, OP_POP,
             OP_NIL, OP_RETURN>>,
           <<MakeFn, String("make"), String("a"), String("b")>>)

\* var gset;
\* fun outer() { var x = 1; fun set(v) { x = v; } fun get() { print x; }
\*               gset = set; set(2); get(); return get; }
\* var g = outer(); gset(3); g();
SetFn ==
    Fn(Some("set"), 1, 1,
       <<OP_GET_LOCAL, 1, OP_SET_UPVALUE, 0, OP_POP, OP_NIL, OP_RETURN>>, <<>>)
GetFn ==
    Fn(Some("get"), 0, 1, <<OP_GET_UPVALUE, 0, OP_PRINT, OP_NIL, OP_RETURN>>, <<>>)
OuterFn ==
    Fn(Some("outer"), 0, 0,
       <<OP_CONSTANT, 0, OP_CLOSURE, 1, 1, 1, OP_CLOSURE, 2, 1, 1,
         OP_GET_LOCAL, 2, OP_SET_GLOBAL, 3, OP_POP,
         OP_GET_LOCAL, 2, OP_CONSTANT, 4, OP_CALL, 1, OP_POP,
         OP_GET_LOCAL, 3, OP_CALL, 0, OP_POP,
         OP_GET_LOCAL, 3, OP_RETURN>>,
       <<Number(1), SetFn, GetFn, String("gset"), Number(2)>>)
SharedScript ==
    Script(<<OP_NIL, OP_DEFINE_GLOBAL, 0,
             OP_CLOSURE, 1, OP_DEFINE_GLOBAL, 2,
             OP_GET_GLOBAL, 2, OP_CALL, 0, OP_DEFINE_GLOBAL, 3,
             OP_GET_GLOBAL, 0, OP_CONSTANT, 4, OP_CALL, 1, OP_POP,
             OP_GET_GLOBAL, 3, OP_CALL, 0, OP_POP,
             OP_NIL, OP_RETURN>>,
           <<String("gset"), OuterFn, String("outer"), String("g"), Number(3)>>)

\* var g; { var x = 1; fun get() { print x; } g = get; } g();
\* with the CLOSE_UPVALUE that ends the scope of the captured local x
BlockScript ==
    Script(<<OP_NIL, OP_DEFINE_GLOBAL, 0,
             OP_CONSTANT, 1, OP_CLOSURE, 2, 1, 1,
             OP_GET_LOCAL, 2, OP_SET_GLOBAL, 0, OP_POP,
             OP_POP, OP_CLOSE_UPVALUE,
             OP_GET_GLOBAL, 0, OP_CALL, 0, OP_POP,
             OP_NIL, OP_RETURN>>,
           <<String("g"), Number(1), GetFn>>)

\* { var a = 1; var b = 2; var c = 3; fun three() { ... } } where three uses
\* a, b and c (the locals 1, 2 and 3) in the order given
ThreeFn == Fn(Some("three"), 0, 3, <<OP_NIL, OP_RETURN>>, <<>>)
OrderScript(order) ==
    Script(<<OP_CONSTANT, 0, OP_CONSTANT, 1, OP_CONSTANT, 2,
             OP_CLOSURE, 3, 1, order[1], 1, order[2], 1, order[3],
             OP_POP, OP_POP, OP_POP, OP_POP, OP_NIL, OP_RETURN>>,
           <<Number(1), Number(2), Number(3), ThreeFn>>)
OrderScripts ==
    {OrderScript(order) : order \in {o \in [1..3 -> 1..3] : \A i, j \in 1..3 : o[i] = o[j] => i = j}}

\* fun f() { f(); } f();
RecurseFn ==
    Fn(Some("f"), 0, 0, <<OP_GET_GLOBAL, 0, OP_CALL, 0, OP_POP, OP_NIL, OP_RETURN>>,
       <<String("f")>>)
RecurseScript ==
    Script(<<OP_CLOSURE, 0, OP_DEFINE_GLOBAL, 1, OP_GET_GLOBAL, 1, OP_CALL, 0, OP_POP,
             OP_NIL, OP_RETURN>>,
           <<RecurseFn, String("f")>>)

\* a function of `arity` parameters called with arg_count arguments (all nil)
MaxArgs == 2
NilFn(arity) == Fn(Some("g"), arity, 0, <<OP_NIL, OP_RETURN>>, <<>>)
ArityScript(arity, arg_count) ==
    Script(<<OP_CLOSURE, 0>> \o [i \in 1..arg_count |-> OP_NIL]
             \o <<OP_CALL, arg_count, OP_POP, OP_NIL, OP_RETURN>>,
           <<NilFn(arity)>>)
ArityScripts == {ArityScript(n, m) : n \in 0..MaxArgs, m \in 0..MaxArgs}

\* the class P called with arg_count arguments (all nil), and what is then on
\* top printed
ConstructScript(arg_count) ==
    Script(<<OP_CLASS, 0>> \o [i \in 1..arg_count |-> OP_NIL]
             \o <<OP_CALL, arg_count, OP_PRINT, OP_NIL, OP_RETURN>>,
           <<Class("P")>>)
ConstructScripts == {ConstructScript(m) : m \in 0..MaxArgs}

\* class P {} var p = P(); var q = p; q.n = 13; print p.n; print p.m; ...
ClassScript ==
    Script(<<OP_CLASS, 0, OP_DEFINE_GLOBAL, 0,
             OP_GET_GLOBAL, 1, OP_CALL, 0, OP_DEFINE_GLOBAL, 2,
             OP_GET_GLOBAL, 2, OP_DEFINE_GLOBAL, 3,
             OP_GET_GLOBAL, 3, OP_CONSTANT, 4, OP_SET_PROPERTY, 5, OP_PRINT,
             OP_GET_GLOBAL, 2, OP_GET_PROPERTY, 5, OP_PRINT,
             OP_GET_GLOBAL, 2, OP_GET_PROPERTY, 6, OP_PRINT,
             OP_NIL, OP_RETURN>>,
           <<Class("P"), String("P"), String("p"), String("q"), Number(13),
             String("n"), String("m")>>)
\* an instance of P and a value, then the property instruction `tail` whose
\* name operand is the constant `name`
PropertyScript(name, tail) ==
    Script(<<OP_CLASS, 0, OP_CALL, 0, OP_CONSTANT, 1>> \o tail
             \o <<OP_PRINT, OP_NIL, OP_RETURN>>,
           <<Class("P"), Number(13), name>>)
PropertyScripts ==
    {PropertyScript(name, tail) :
        name \in {String("n"), Number(1)},
        tail \in {<<OP_SET_PROPERTY, 2>>, <<OP_POP, OP_GET_PROPERTY, 2>>}}

\* { var i = 0; while (i < 2) { print i; i = i + 1; } }
LoopScript ==
    Script(<<OP_JUMP, 0, 0, OP_CONSTANT, 0,
             OP_GET_LOCAL, 1, OP_CONSTANT, 1, OP_LESS, OP_JUMP_IF_FALSE, 0, 15,
             OP_POP, OP_GET_LOCAL, 1, OP_PRINT,
             OP_GET_LOCAL, 1, OP_CONSTANT, 2, OP_ADD, OP_SET_LOCAL, 1, OP_POP,
             OP_LOOP, 0, 23,
             OP_POP, OP_POP, OP_NIL, OP_RETURN>>,
           <<Number(0), Number(2), Number(1)>>)

\* print true; print !false;
LiteralScript ==
    Script(<<OP_TRUE, OP_PRINT, OP_FALSE, OP_NOT, OP_PRINT, OP_NIL, OP_RETURN>>, <<>>)

\* a function whose local operand added to the frame's slot leaves the u8 range
WrapFn == Fn(Some("w"), 0, 0, <<OP_GET_LOCAL, 255, OP_PRINT, OP_NIL, OP_RETURN>>, <<>>)
WrapScript ==
    Script(<<OP_CLOSURE, 0, OP_CALL, 0, OP_POP, OP_NIL, OP_RETURN>>, <<WrapFn>>)

\* a function called above 256 values, so that its frame's slot is 257, which
\* reads its local 0 (the callee itself) and then stores nil into it
DeepFn == Fn(Some("d"), 0, 0, <<OP_GET_LOCAL, 0, OP_PRINT, OP_NIL, OP_SET_LOCAL, 0,
                                OP_RETURN>>, <<>>)
DeepScript ==
    Script([i \in 1..U8 |-> OP_NIL] \o <<OP_CLOSURE, 0, OP_CALL, 0, OP_POP, OP_NIL, OP_RETURN>>,
           <<DeepFn>>)

\* scripts that end in a panic: todo!, a fetch past the code, a byte that is no
\* opcode, a loop before offset 0, an upvalue index the enclosing closure lacks
PanicScripts ==
    {Script(<<OP_CLOSE_UPVALUE>>, <<>>),
     Script(<<OP_NIL>>, <<>>),
     Script(<<200>>, <<>>),
     Script(<<OP_LOOP, 0, 9, OP_NIL, OP_RETURN>>, <<>>),
     Script(<<OP_CLOSURE, 0, 0, 0, OP_POP, OP_NIL, OP_RETURN>>, <<GetFn>>)}

Scripts ==
    {CounterScript, SharedScript, BlockScript, RecurseScript, ClassScript, LoopScript,
     LiteralScript, WrapScript, DeepScript}
        \cup ArityScripts \cup PropertyScripts \cup PanicScripts \cup OperandScripts
        \cup OrderScripts \cup ConstructScripts

\* compiler.rs is modelled further down; SpecVM does not use it
NoCompiler == [none |-> TRUE]
\* the language server is another program: it is not running
NoServer ==
    /\ inbox = <<>>
    /\ handlers = <<>>
    /\ docs = <<>>
    /\ published = <<>>
    /\ response = None

InitVM ==
    /\ NoServer
    /\ source \in Scripts
    /\ overflow_checks \in BOOLEAN
    /\ pc = "run"
    /\ compiler = NoCompiler
    /\ LET v == interpret(NewVM, Some(source))
       IN  /\ value_stack = v.value_stack
           /\ frames = v.frames
           /\ frame_count = v.frame_count
           /\ globals = v.globals
           /\ open_upvalue_head = v.open_upvalue_head
           /\ instances = v.instances
           /\ stdout = v.stdout
           /\ result = v.result
    /\ steps = 0

\* run() has not returned and is about to dispatch the opcode op
Running == pc = "run" /\ result = "none" /\ steps < MaxSteps
Dispatch(op) == Running /\ CanFetch(VM) /\ Fetched(VM) = op
\* the handler's result becomes the next state
Handled(v) ==
    /\ SetVM(v)
    /\ steps' = steps + 1
    /\ UNCHANGED <<source, pc, compiler, overflow_checks>>
    /\ UNCHANGED lsp_vars

RunReturn == Dispatch(OP_RETURN) /\ Handled(OpReturn(Adv(VM, 1)))
RunConstant == Dispatch(OP_CONSTANT) /\ Handled(OpConstant(Adv(VM, 1)))
RunNil == Dispatch(OP_NIL) /\ Handled(OpNil(Adv(VM, 1)))
RunTrue == Dispatch(OP_TRUE) /\ Handled(OpTrue(Adv(VM, 1)))
RunFalse == Dispatch(OP_FALSE) /\ Handled(OpFalse(Adv(VM, 1)))
RunEqual == Dispatch(OP_EQUAL) /\ Handled(OpEqual(Adv(VM, 1)))
RunGreater == Dispatch(OP_GREATER) /\ Handled(OpGreater(Adv(VM, 1)))
RunLess == Dispatch(OP_LESS) /\ Handled(OpLess(Adv(VM, 1)))
RunNegate == Dispatch(OP_NEGATE) /\ Handled(OpNegate(Adv(VM, 1)))
RunAdd == Dispatch(OP_ADD) /\ Handled(OpAdd(Adv(VM, 1)))
RunSubtract == Dispatch(OP_SUBTRACT) /\ Handled(OpSubtract(Adv(VM, 1)))
RunMultiply == Dispatch(OP_MULTIPLY) /\ Handled(OpMultiply(Adv(VM, 1)))
RunDivide == Dispatch(OP_DIVIDE) /\ Handled(OpDivide(Adv(VM, 1)))
RunNot == Dispatch(OP_NOT) /\ Handled(OpNot(Adv(VM, 1)))
RunPrint == Dispatch(OP_PRINT) /\ Handled(OpPrint(Adv(VM, 1)))
RunPop == Dispatch(OP_POP) /\ Handled(OpPop(Adv(VM, 1)))
RunDefineGlobal == Dispatch(OP_DEFINE_GLOBAL) /\ Handled(OpDefineGlobal(Adv(VM, 1)))
RunGetGlobal == Dispatch(OP_GET_GLOBAL) /\ Handled(OpGetGlobal(Adv(VM, 1)))
RunSetGlobal == Dispatch(OP_SET_GLOBAL) /\ Handled(OpSetGlobal(Adv(VM, 1)))
RunGetLocal == Dispatch(OP_GET_LOCAL) /\ Handled(OpGetLocal(Adv(VM, 1)))
RunSetLocal == Dispatch(OP_SET_LOCAL) /\ Handled(OpSetLocal(Adv(VM, 1)))
RunJumpIfFalse == Dispatch(OP_JUMP_IF_FALSE) /\ Handled(OpJumpIfFalse(Adv(VM, 1)))
RunJump == Dispatch(OP_JUMP) /\ Handled(OpJump(Adv(VM, 1)))
RunLoop == Dispatch(OP_LOOP) /\ Handled(OpLoop(Adv(VM, 1)))
RunCall ==
    /\ Dispatch(OP_CALL)
    /\ \E millis \in 0..MaxClock : Handled(OpCall(Adv(VM, 1), millis))
RunClosure == Dispatch(OP_CLOSURE) /\ Handled(OpClosure(Adv(VM, 1)))
RunGetUpvalue == Dispatch(OP_GET_UPVALUE) /\ Handled(OpGetUpvalue(Adv(VM, 1)))
RunSetUpvalue == Dispatch(OP_SET_UPVALUE) /\ Handled(OpSetUpvalue(Adv(VM, 1)))
RunCloseUpvalue == Dispatch(OP_CLOSE_UPVALUE) /\ Handled(OpCloseUpvalue(Adv(VM, 1)))
RunClass == Dispatch(OP_CLASS) /\ Handled(OpClass(Adv(VM, 1)))
RunGetProperty == Dispatch(OP_GET_PROPERTY) /\ Handled(OpGetProperty(Adv(VM, 1)))
RunSetProperty == Dispatch(OP_SET_PROPERTY) /\ Handled(OpSetProperty(Adv(VM, 1)))
\* get_instruction!().unwrap() panics
RunNoInstruction == Running /\ ~CanFetch(VM) /\ Handled(Panic(VM))

NextVM ==
    \/ RunReturn \/ RunConstant \/ RunNil \/ RunTrue \/ RunFalse \/ RunEqual
    \/ RunGreater \/ RunLess \/ RunNegate \/ RunAdd \/ RunSubtract \/ RunMultiply
    \/ RunDivide \/ RunNot \/ RunPrint \/ RunPop \/ RunDefineGlobal \/ RunGetGlobal
    \/ RunSetGlobal \/ RunGetLocal \/ RunSetLocal \/ RunJumpIfFalse \/ RunJump
    \/ RunLoop \/ RunCall \/ RunClosure \/ RunGetUpvalue \/ RunSetUpvalue
    \/ RunCloseUpvalue \/ RunClass \/ RunGetProperty \/ RunSetProperty
    \/ RunNoInstruction

SpecVM == InitVM /\ [][NextVM]_vars

-----------------------------------------------------------------------------
(* Spec: VM::interpret(source) on a fresh VM::new().  compile() is taken   *)
(* one declaration at a time, the declarations of a block of the script    *)
(* one at a time as well, and run() one instruction at a time.             *)

\* a block with two locals initialized with the literals v1 and v2
Literals ==
    {[text |-> "1", shown |-> "1"], [text |-> "20", shown |-> "20"],
     [text |-> "\"s\"", shown |-> "s"], [text |-> "nil", shown |-> "nil"],
     [text |-> "true", shown |-> "true"]}
LocalsSource(v1, v2) ==
    "{ var a = " \o v1.text \o "; print a; var b = " \o v2.text
        \o "; print b; { var c = a; print c; } a = b; print a; }"
LocalsSources == {LocalsSource(v1, v2) : v1 \in Literals, v2 \in Literals}

CounterSource ==
    "fun make() { var i = 0; fun inc() { i = i + 1; print i; } return inc; }\n"
        \o "var a = make(); var b = make(); a(); a(); b(); a();"
ClassSource == "class P {} var p = P(); p.n = 13; print p.n;"
NestedErrorSource == "fun f() { 1 + ; }"
\* an error of the enclosing compiler just before it makes the function's
CascadeSource == "fun 1() {}"
FunSource == "fun f() {} print f;"
ShadowSource == "{ var a = 1; { var a = 2; print a; } }"
RedeclareSource == "{ var a = 1; var a = 2; }"
\* var a<lo>; ... var a<hi>;
RECURSIVE VarDeclarations(_, _)
VarDeclarations(lo, hi) ==
    IF lo > hi THEN ""
    ELSE IF lo = hi THEN "var a" \o IntToStr(lo) \o "; "
    ELSE LET mid == (lo + hi) \div 2
         IN  VarDeclarations(lo, mid) \o VarDeclarations(mid + 1, hi)
\* a block that declares n locals with different names
ManyLocalsSource(n) == "{ " \o VarDeclarations(1, n) \o "}"
\* with slot 0 of the compiler that makes U8 - 1 and U8 locals
ManyLocalsSources == {ManyLocalsSource(U8 - 2), ManyLocalsSource(U8 - 1)}
\* a<lo>, ..., a<hi>
RECURSIVE ParameterList(_, _)
ParameterList(lo, hi) ==
    IF lo = hi THEN "a" \o IntToStr(lo)
    ELSE LET mid == (lo + hi) \div 2
         IN  ParameterList(lo, mid) \o ", " \o ParameterList(mid + 1, hi)
\* a function of n parameters with different names
ParametersSource(n) == "fun f(" \o ParameterList(1, n) \o ") {}"
\* with slot 0 of the function's compiler that makes U8 - 1 and U8 locals
ManyParametersSources == {ParametersSource(U8 - 2), ParametersSource(U8 - 1)}
\* print <lo>; ... print <hi>;
RECURSIVE PrintStatements(_, _)
PrintStatements(lo, hi) ==
    IF lo = hi THEN "print " \o IntToStr(lo) \o "; "
    ELSE LET mid == (lo + hi) \div 2
         IN  PrintStatements(lo, mid) \o PrintStatements(mid + 1, hi)
\* a script whose chunk gets the n number constants 0, ..., n - 1
ManyConstantsSource(n) == PrintStatements(0, n - 1)
\* as many constants as a one-byte index addresses, and one more
ManyConstantsSources == {ManyConstantsSource(U8), ManyConstantsSource(U8 + 1)}
\* the text s, n times
RECURSIVE Repeat(_, _)
Repeat(s, n) ==
    IF n <= 0 THEN "" ELSE IF n = 1 THEN s
    ELSE Repeat(s, n \div 2) \o Repeat(s, n - n \div 2)
\* statements that compile to n bytes: `nil;` is NIL, POP and `a;` is
\* GET_GLOBAL, its operand, POP
StatementsOfSize(n) ==
    IF n % 2 = 1 THEN "a; " \o Repeat("nil; ", (n - 3) \div 2)
    ELSE Repeat("nil; ", n \div 2)
\* an if whose JUMP_IF_FALSE has n bytes to jump over: the POP, the block
\* and the JUMP with its operand
IfSource(n) == "if (false) { " \o StatementsOfSize(n - 4) \o "} print 1;"
\* the same if in the body of a function
NestedIfSource(n) == "fun f() { if (false) { " \o StatementsOfSize(n - 4) \o "} } print 1;"
\* a while whose LOOP has the offset n: the condition, the JUMP_IF_FALSE with
\* its operand, the POP, the block and the LOOP with its operand
WhileSource(n) == "while (false) { " \o StatementsOfSize(n - 8) \o "} print 1;"
\* jumps over the greatest distance that two bytes encode, and over one more
IfAtLimit == IfSource(U16_MAX)
IfOverLimit == IfSource(U16_MAX + 1)
NestedIfOverLimit == NestedIfSource(U16_MAX + 1)
WhileOverLimit == WhileSource(U16_MAX + 1)
JumpSources == {IfAtLimit, IfOverLimit, NestedIfOverLimit, WhileOverLimit}
\* an `=` after an expression that is no assignment target
BadTargetSources == {"a + b = c;", "1 = 2;", "(a) = 1;"}
\* `var a = a;` at the top level, in a block and in a function body
OwnInitializerSources == {"var a = a;", "{ var a = a; }", "fun f() { var a = a; }"}

\* the binary operators of the two-operator expressions: the text, the code
\* binary() emits for it and the level of its parse rule
BinaryOps ==
    {[text |-> "+", code |-> <<OP_ADD>>, precedence |-> PREC_TERM],
     [text |-> "-", code |-> <<OP_SUBTRACT>>, precedence |-> PREC_TERM],
     [text |-> "*", code |-> <<OP_MULTIPLY>>, precedence |-> PREC_FACTOR],
     [text |-> "/", code |-> <<OP_DIVIDE>>, precedence |-> PREC_FACTOR],
     [text |-> "<", code |-> <<OP_LESS>>, precedence |-> PREC_COMPARISON],
     [text |-> ">=", code |-> <<OP_LESS, OP_NOT>>, precedence |-> PREC_COMPARISON],
     [text |-> "==", code |-> <<OP_EQUAL>>, precedence |-> PREC_EQUALITY]}
BinarySource(op1, op2) == "print 1 " \o op1.text \o " 2 " \o op2.text \o " 3;"
BinarySources == {BinarySource(op1, op2) : op1 \in BinaryOps, op2 \in BinaryOps}

\* the left operands of `and` and `or`: the literals and false
LogicOperands == Literals \cup {[text |-> "false", shown |-> "false"]}
\* prints `a op (g = 5)` and then g, which is 5 iff the right operand ran
LogicSource(a, op) == "var g = 0; print " \o a.text \o " " \o op \o " (g = 5); print g;"
LogicSources == {LogicSource(a, op) : a \in LogicOperands, op \in {"and", "or"}}

\* the loops count up to at most MaxIter
MaxIter == 3
ForExample == "var s = 0; for (var i = 0; i < 3; i = i + 1) { s = s + i; } print s;"
\* a loop over 0..n-1 that prints its counter and sums it; with init = "var "
\* the counter is a local of the loop that hides the global i, with init = ""
\* it is the global i
ForSource(init, n) ==
    "var i = 9; var s = 0; for (" \o init \o "i = 0; i < " \o IntToStr(n)
        \o "; i = i + 1) { print i; s = s + i; } print i; print s;"
ForSources == {ForSource(init, n) : init \in {"var ", ""}, n \in 0..MaxIter}

\* if, if/else, while and for statements whose condition is true, false,
\* absent or changes, at the top level, in one another and among locals
ForeverSource == "for (;;) print 1;"
ControlSources ==
    {"if (true) print 1;", "if (false) print 1;",
     "if (true) print 1; else print 2;", "if (false) print 1; else print 2;",
     "while (false) print 1;",
     "var i = 0; while (i < 2) { if (i < 1) print i; else print 9; i = i + 1; }",
     "for (; false;) print 1;", "for (var i = 0; i < 2;) i = i + 1;", ForeverSource,
     "{ var a = 1; if (a) print a; while (!a) print 2; for (; !a;) print 3; print a; }"}

Sources ==
    {CounterSource, ClassSource, NestedErrorSource, CascadeSource, FunSource,
     "", "1 + 2;", "print 1 + 2 * 3 - 4 / 2;", "print (1 + 2) * 3;", "1 + ;", "print 1",
     "var g = 1; g = g + 1; print g;", "print x;", "x = 1;", "print -nil;",
     "print !true == false; print 1 != 2; print 1 <= 2; print 2 >= 3;",
     "print \"a\" + \"b\"; print \"a\" + 1; print 1 < 2; print 2 > 1;",
     "print nil or 2; print 1 and 2; print nil and 2; print 1 or 2;",
     "var i = 0; while (i < 3) { print i; i = i + 1; }",
     "if (1 < 2) print \"y\"; else print \"n\"; if (nil) print 1;",
     "for (var i = 0; i < 2; i = i + 1) print i;",
     "for (var i = 0; i < 2; i = i + 1) { var j = i + 1; print j; }",
     ShadowSource, RedeclareSource,
     "{ var x = 1; fun f(p, q) { var y = p; print y; } print f; print x; }",
     "// comment\nprint 1; @ print 2;", "print 1 / 0; print 0 / 0 == 0 / 0;", "print 1.5;",
     "a = 1 = 2;", "print clock;", "1 /", "print 1."}
        \cup LocalsSources \cup {ForExample} \cup ForSources \cup BinarySources
        \cup LogicSources \cup OwnInitializerSources \cup BadTargetSources
        \cup ManyLocalsSources \cup ManyParametersSources \cup ManyConstantsSources
        \cup ControlSources

\* the sources compiled along with those of JumpSources
ShortSources ==
    LocalsSources \cup ForSources
        \cup {FunSource, "fun f(p, q) { var y = p; print y; } print f;", ClassSource}

Init ==
    /\ NoServer
    /\ source \in Sources
    /\ overflow_checks \in BOOLEAN
    /\ pc = "start"
    /\ compiler = NoCompiler
    /\ value_stack = NewVM.value_stack
    /\ frames = NewVM.frames
    /\ frame_count = NewVM.frame_count
    /\ globals = NewVM.globals
    /\ open_upvalue_head = NewVM.open_upvalue_head
    /\ instances = NewVM.instances
    /\ stdout = NewVM.stdout
    /\ result = NewVM.result
    /\ steps = 0

\* the compiler c becomes the next state, with what it has printed
Compiled(c) ==
    /\ compiler' = c
    /\ stdout' = compiler'.out
    /\ UNCHANGED <<source, value_stack, frames, frame_count, globals, open_upvalue_head,
                   instances, result, steps, overflow_checks>>
    /\ UNCHANGED lsp_vars

\* interpret(): Scanner::new, Compiler::new and compile() up to its loop
StartCompile ==
    /\ pc = "start"
    /\ pc' = "compile"
    /\ Compiled(begin_compile(NewCompiler(NewScanner(source), "Script", stdout)))
\* compile(): one iteration of `while !self.match_token(TokenType::Eof)`; a
\* block statement and a function declaration of the script are taken in
\* steps of their own
Declaration ==
    /\ pc = "compile" /\ ~compiler.panicked /\ ~check(compiler, "Eof")
    /\ ~check(compiler, "LeftBrace") /\ ~check(compiler, "Fun")
    /\ pc' = "compile"
    /\ Compiled(declaration(compiler))
\* declaration() -> statement(): match_token(LeftBrace) and begin_scope()
BeginBlock ==
    /\ pc = "compile" /\ ~compiler.panicked /\ check(compiler, "LeftBrace")
    /\ pc' = "block"
    /\ Compiled(begin_scope(advance(compiler)))
\* block(): one iteration of its loop
BlockDeclaration ==
    /\ pc = "block" /\ ~compiler.panicked
    /\ ~check(compiler, "RightBrace") /\ ~check(compiler, "Eof")
    /\ pc' = "block"
    /\ Compiled(declaration(compiler))
\* block() after its loop, end_scope() and the end of declaration()
EndBlock ==
    /\ pc = "block" /\ ~compiler.panicked
    /\ check(compiler, "RightBrace") \/ check(compiler, "Eof")
    /\ pc' = "compile"
    /\ Compiled(Then(end_scope(consume(compiler, "RightBrace", "Expect '}' after block.")),
                     LAMBDA c1 :
                        IF c1.panicked THEN c1
                        ELSE IF c1.parser.panic_mode THEN synchronize(c1)
                        ELSE c1))
\* the enclosing compiler while the Compiler `nested` compiles the function:
\* what has been printed and a panic are those of nested
Nesting(self, nested, global_index) ==
    [self EXCEPT !.pending = Some([compiler |-> nested, global_index |-> global_index]),
                 !.out = nested.out, !.panicked = nested.panicked]
\* declaration() -> fun_declaration() -> function() up to its parameter loop
BeginFunction ==
    /\ pc = "compile" /\ ~compiler.panicked /\ check(compiler, "Fun")
    /\ LET r == parse_variable(advance(compiler), "Expect function name.")
           b == function_begin(mark_initialized(r.compiler), "Function")
       IN  /\ pc' = IF check(b.compiler, "RightParen") THEN "body" ELSE "params"
           /\ Compiled(Nesting(b.self, b.compiler, r.index))
\* function(): one iteration of its parameter loop
Parameter ==
    /\ pc = "params" /\ ~compiler.panicked
    /\ LET p == parameter(compiler, Unwrap(compiler.pending).compiler)
       IN  /\ pc' = IF p.more THEN "params" ELSE "body"
           /\ Compiled(Nesting(p.self, p.compiler, Unwrap(compiler.pending).global_index))
\* function() after its parameter loop, define_variable() and the end of
\* declaration()
EndFunction ==
    /\ pc = "body" /\ ~compiler.panicked
    /\ pc' = "compile"
    /\ Compiled(Then(define_variable(
                        function_end([compiler EXCEPT !.pending = None],
                                     Unwrap(compiler.pending).compiler),
                        Unwrap(compiler.pending).global_index),
                     LAMBDA c1 :
                        IF c1.panicked THEN c1
                        ELSE IF c1.parser.panic_mode THEN synchronize(c1)
                        ELSE c1))
\* compile(): the loop ends and the function is returned
EndCompile ==
    /\ pc = "compile" /\ ~compiler.panicked /\ check(compiler, "Eof")
    /\ pc' = "compiled"
    /\ Compiled(finish_compile(compiler))
\* a panic in compile() ends the process
CompilePanics ==
    /\ pc \in {"compile", "block", "params", "body"} /\ compiler.panicked
    /\ pc' = "done"
    /\ result' = "Panic"
    /\ UNCHANGED <<source, compiler, value_stack, frames, frame_count, globals,
                   open_upvalue_head, instances, stdout, steps, overflow_checks>>
    /\ UNCHANGED lsp_vars
\* interpret(): the match on compile_result
Interpret ==
    /\ pc = "compiled"
    /\ LET v == interpret(VM, compile_result(compiler))
       IN  /\ SetVM(v)
           /\ pc' = IF v.result = "none" THEN "run" ELSE "done"
    /\ UNCHANGED <<source, compiler, steps, overflow_checks>>
    /\ UNCHANGED lsp_vars
\* run(): one iteration of its loop
Run ==
    /\ Running
    /\ \E millis \in 0..MaxClock : Handled(Execute(VM, millis))

Next ==
    \/ StartCompile \/ Declaration \/ BeginBlock \/ BlockDeclaration \/ EndBlock
    \/ BeginFunction \/ Parameter \/ EndFunction
    \/ EndCompile \/ CompilePanics \/ Interpret \/ Run

Spec == Init /\ [][Next]_vars

\* no step of interpret() is left: it has returned or panicked, or run() is at
\* the bound of the steps followed
Stopped == pc = "done" \/ (pc = "run" /\ ~Running)
\* interpret() is sequential code on one thread: while a step is possible, the
\* next one is taken.  This is weak fairness of Next, with Stopped for the
\* states in which no step is enabled; a panic raised in compile() unwinds.
Fairness ==
    /\ []<>Stopped \/ []<><<Next>>_vars
    /\ WF_vars(CompilePanics)
SpecFair == Init /\ [][Next]_vars /\ Fairness

(* SpecJump: interpret() of sources whose jumps are at the limit of their   *)
(* two-byte operand.                                                       *)
InitJump ==
    /\ NoServer
    /\ source \in JumpSources \cup ShortSources
    /\ overflow_checks \in BOOLEAN
    \* where the build with overflow checks does not panic, the build without
    \* them computes the same: the long sources are compiled by the former
    /\ source \in JumpSources => overflow_checks
    /\ pc = "start"
    /\ compiler = NoCompiler
    /\ value_stack = NewVM.value_stack
    /\ frames = NewVM.frames
    /\ frame_count = NewVM.frame_count
    /\ globals = NewVM.globals
    /\ open_upvalue_head = NewVM.open_upvalue_head
    /\ instances = NewVM.instances
    /\ stdout = NewVM.stdout
    /\ result = NewVM.result
    /\ steps = 0

SpecJump == InitJump /\ [][Next]_vars

-----------------------------------------------------------------------------
(* SpecLsp: the language server of tools/rlox-lsp.  The client sends         *)
(* didOpen and didChange notifications for one document; the server starts  *)
(* a handler for each as it arrives, and the handlers run concurrently: one *)
(* that waits at an .await leaves the thread to the others.  A handler has  *)
(* two await points, publish_diagnostics and the write lock of docs.        *)

\* offset_to_position: line and column of the offset, which is clamped to the
\* length of the text
offset_to_position(text, offset) ==
    LET clamped_offset == IF offset < Len(text) THEN offset ELSE Len(text)
        newlines == {i \in 1..clamped_offset : SubSeq(text, i, i) = "\n"}
        last_newline == IF newlines = {} THEN 0
                        ELSE CHOOSE i \in newlines : \A j \in newlines : j <= i
    IN  [line |-> Cardinality(newlines), character |-> clamped_offset - last_newline]
\* token_range
token_range(text, start_offset, length) ==
    [start |-> offset_to_position(text, start_offset),
     end |-> offset_to_position(text, start_offset + length)]

\* the loop of Backend::analyze_text from the scanner s on; doc is what has been
\* collected and pending_symbol_kind the Option of the same name.  The texts
\* of Texts are scanned without a panic of the scanner.
RECURSIVE analyze_tokens(_, _, _, _)
analyze_tokens(text, s, doc, pending_symbol_kind) ==
    LET r == scan_token(s)
        token == r.token
        length == IF token.length < 1 THEN 1 ELSE token.length
        range == token_range(text, token.start, length)
        doc1 ==
            IF token.token_type = "Error"
            THEN [doc EXCEPT !.diagnostics =
                    Append(@, [range |-> range, severity |-> "ERROR",
                               source |-> "rlox-lsp", message |-> "Scanner error token"])]
            ELSE IF token.token_type = "Identifier" /\ IsSome(pending_symbol_kind)
            THEN [doc EXCEPT !.symbols =
                    Append(@, [name |-> Slice(text, token.start, token.start + token.length),
                               kind |-> Unwrap(pending_symbol_kind), range |-> range])]
            ELSE doc
        pending1 ==
            CASE token.token_type = "Fun" -> Some("FUNCTION")
              [] token.token_type = "Class" -> Some("CLASS")
              [] token.token_type = "Var" -> Some("VARIABLE")
              [] token.token_type \in {"Error", "Identifier", "Semicolon", "LeftBrace",
                                       "RightBrace", "Eof"} -> None
              [] OTHER -> pending_symbol_kind
    IN  IF token.token_type = "Eof" THEN doc1
        ELSE analyze_tokens(text, r.scanner, doc1, pending1)
\* Backend::analyze_text
analyze_text(text) ==
    analyze_tokens(text, NewScanner(text), [diagnostics |-> <<>>, symbols |-> <<>>], None)

\* extract_full_text: the text of the first change, or the empty string
extract_full_text(changes) == IF changes = <<>> THEN "" ELSE changes[1].text

\* the document and the texts the client sends for it
Uri == "file:///a.lox"
Texts == {"var a;", "fun f() {}", "@"}
MaxNotifications == 3
\* didOpen with the text, didChange with its content changes
DidOpen(text) == [method |-> "didOpen", uri |-> Uri, text |-> text]
DidChange(changes) == [method |-> "didChange", uri |-> Uri, content_changes |-> changes]
Changes == {<<>>} \cup {<<[text |-> t]>> : t \in Texts}
                  \cup {<<[text |-> "@"], [text |-> t]>> : t \in Texts}
\* what the client sends: it opens the document and changes it up to
\* MaxNotifications - 1 times
Sessions ==
    UNION {[1..n -> {DidOpen(t) : t \in Texts} \cup {DidChange(c) : c \in Changes}] :
                n \in 1..MaxNotifications}
\* the text a notification carries
TextOf(notification) ==
    IF notification.method = "didOpen" THEN notification.text
    ELSE extract_full_text(notification.content_changes)

InitLsp ==
    /\ source = "" /\ pc = "done" /\ compiler = NoCompiler
    /\ value_stack = NewVM.value_stack
    /\ frames = NewVM.frames
    /\ frame_count = NewVM.frame_count
    /\ globals = NewVM.globals
    /\ open_upvalue_head = NewVM.open_upvalue_head
    /\ instances = NewVM.instances
    /\ stdout = NewVM.stdout
    /\ result = NewVM.result
    /\ steps = 0
    /\ overflow_checks = FALSE
    /\ inbox \in {session \in Sessions :
                    /\ session[1].method = "didOpen"
                    /\ \A k \in 2..Len(session) : session[k].method = "didChange"}
    /\ handlers = <<>>
    /\ docs = <<>>
    /\ published = <<>>
    /\ response = None

\* a handler takes the next notification and runs to its first await:
\* analyze_and_store has analysed the text and is at publish_diagnostics
Started(text) ==
    /\ inbox # <<>>
    /\ inbox' = Tail(inbox)
    /\ handlers' = Append(handlers, [uri |-> Head(inbox).uri, text |-> text,
                                     analyzed |-> analyze_text(text), at |-> "publish"])
    /\ UNCHANGED <<docs, published, response>>
    /\ UNCHANGED rlox_vars
\* Backend::did_open
did_open ==
    /\ inbox # <<>> /\ Head(inbox).method = "didOpen"
    /\ Started(Head(inbox).text)
\* Backend::did_change
did_change ==
    /\ inbox # <<>> /\ Head(inbox).method = "didChange"
    /\ Started(extract_full_text(Head(inbox).content_changes))
\* analyze_and_store of handler h: client.publish_diagnostics(..).await
\* completes, and the handler is at docs.write().await
publish_diagnostics(h) ==
    /\ handlers[h].at = "publish"
    /\ published' = Append(published, [uri |-> handlers[h].uri,
                                       diagnostics |-> handlers[h].analyzed.diagnostics])
    /\ handlers' = [handlers EXCEPT ![h].at = "write"]
    /\ UNCHANGED <<inbox, docs, response>>
    /\ UNCHANGED rlox_vars
\* analyze_and_store of handler h: the write lock is granted, docs.insert and
\* the end of the handler, which drops the guard; there is no await in between
insert(h) ==
    /\ handlers[h].at = "write"
    /\ docs' = (handlers[h].uri :> handlers[h].analyzed) @@ docs
    /\ handlers' = [handlers EXCEPT ![h].at = "done"]
    /\ UNCHANGED <<inbox, published, response>>
    /\ UNCHANGED rlox_vars
\* Backend::document_symbol for the document: the symbols stored, or None
document_symbol ==
    /\ response' = IF Uri \in DOMAIN docs
                   THEN Some([i \in 1..Len(docs[Uri].symbols) |->
                                [name |-> docs[Uri].symbols[i].name,
                                 kind |-> docs[Uri].symbols[i].kind,
                                 range |-> docs[Uri].symbols[i].range,
                                 selection_range |-> docs[Uri].symbols[i].range]])
                   ELSE None
    /\ UNCHANGED <<inbox, handlers, docs, published>>
    /\ UNCHANGED rlox_vars

NextLsp ==
    \/ did_open
    \/ did_change
    \/ \E h \in 1..Len(handlers) : publish_diagnostics(h)
    \/ \E h \in 1..Len(handlers) : insert(h)
    \/ document_symbol

SpecLsp == InitLsp /\ [][NextLsp]_vars

-----------------------------------------------------------------------------
(* Properties.                                                             *)

\* the texts that print statements have written, in order
Printed ==
    LET prints == SelectSeq(stdout, LAMBDA e : e.kind = "print")
    IN  [i \in 1..Len(prints) |-> prints[i].text]
\* a runtime error has been reported
Reported == \E i \in 1..Len(stdout) : stdout[i].kind = "runtime_error"
\* run() is about to execute CALL arg_count with a closure as the callee
CallArgCount == Byte(Adv(VM, 1), 0)
Callee == peek(VM, CallArgCount)
AtClosureCall ==
    /\ Dispatch(OP_CALL)
    /\ CanRead(Adv(VM, 1), 1)
    /\ CanPeek(VM, CallArgCount)
    /\ Callee.t = "Closure"
\* the frames once CALL and its operand have been read
FramesAtCall == Adv(VM, 2).frames
\* this step reports the runtime error `text` and makes run() return RuntimeError
ReportsAndStops(text) ==
    /\ Len(stdout') = Len(stdout) + 1
    /\ stdout'[Len(stdout')].kind = "runtime_error"
    /\ stdout'[Len(stdout')].message = Msg(text)
    /\ result' = "RuntimeError"
\* this step pushes no frame and leaves the value stack alone
NoFramePushed ==
    /\ frame_count' = frame_count
    /\ frames' = FramesAtCall
    /\ value_stack' = value_stack

\* C2: once a handler has reported a runtime error, run() has returned
\* RuntimeError: no state in which a runtime error has been reported is one in
\* which run() is still executing or has ended otherwise.
C2_RuntimeErrorStops == Reported => result = "RuntimeError"
\* C2: GET_PROPERTY of a missing field has reported "Undefined property" and
\* the script runs on
C2_RunsOn ==
    /\ source = PropertyScript(String("n"), <<OP_POP, OP_GET_PROPERTY, 2>>)
    /\ Reported
    /\ result = "Ok"

\* C4: in the script where set and get capture the same x, set(2) is called
\* while x is on the stack and gset(3) after outer has returned: the two calls
\* of get print 2 and then 3.
C4_SharedCell == (source = SharedScript /\ result # "none") => Printed = <<"2", "3">>

C10_FrameLimit ==
    [][/\ frame_count' <= MAX_FRAMES
       /\ (AtClosureCall /\ Callee.function.arity = CallArgCount) =>
            /\ frame_count = MAX_FRAMES =>
                    ReportsAndStops("Stack overflow.") /\ NoFramePushed
            /\ frame_count = MAX_FRAMES - 1 =>
                    /\ frame_count' = MAX_FRAMES
                    /\ frames'[MAX_FRAMES].closure = Callee
                    /\ result' = "none"]_vars
\* C10: the recursion has filled all the frames and the next call has been refused
C10_Overflowed ==
    /\ source = RecurseScript
    /\ frame_count = MAX_FRAMES
    /\ result = "RuntimeError"
    /\ stdout[Len(stdout)].message = Msg("Stack overflow.")

\* a compile error has been reported
CompileErrorReported == \E i \in 1..Len(stdout) : stdout[i].kind = "compile_error"
\* interpret() is past compile() and the compiler did not panic
Interpreted == pc \in {"run", "done"} /\ result # "Panic"

\* C1: the counter example source runs to the end and prints 1, 2, 1, 3.
C1_CounterPrints ==
    (source = CounterSource /\ result # "none") =>
        result = "Ok" /\ Printed = <<"1", "2", "1", "3">>

\* C3: once a compile error has been reported, interpret() returns
\* CompileError with no frame pushed, the value stack empty and no
\* instruction executed.
C3_CompileErrorStops ==
    (CompileErrorReported /\ Interpreted) =>
        result = "CompileError" /\ frame_count = 0 /\ value_stack = <<>> /\ steps = 0

\* C5: `class P {} var p = P(); p.n = 13; print p.n;` runs to the end and
\* prints 13.
C5_PropertyRoundTrip ==
    (source = ClassSource /\ result # "none") => result = "Ok" /\ Printed = <<"13">>

\* C6: a function declaration leaves a Closure in the declared name: no
\* global holds a bare Function.
C6_DeclaredIsClosure == \A name \in DOMAIN globals : globals[name].t # "Function"

\* C7: the script that compile() returns ends with NIL followed by RETURN.
C7_EndsWithNilReturn ==
    (pc \in {"compiled", "run"}) =>
        LET code == compiler.function.chunk.code
        IN  /\ Len(code) >= 2
            /\ code[Len(code) - 1] = OP_NIL
            /\ code[Len(code)] = OP_RETURN

\* C8: compile-time local slots agree with the run-time stack.  Whenever the
\* script is at the code offset where the compiler marked a local defined,
\* the initializer value on top of the stack sits at frame.slot plus the
\* local's index; the operand of every GET_LOCAL and SET_LOCAL executed is the
\* index of a local the compiler defined and addresses a value on the stack;
\* and the block that reads a after `var a = v1;`, b after `var b = v2;`, a
\* again through c in an inner block, and a after `a = b;` prints v1, v2, v1, v2.
C8_LocalSlots ==
    /\ (pc = "run" /\ result = "none" /\ frame_count = 1) =>
            \A i \in 1..Len(compiler.defined) :
                frames[1].ip = compiler.defined[i].offset =>
                    Len(value_stack) - 1 = frames[1].slot + compiler.defined[i].slot
    /\ (Dispatch(OP_GET_LOCAL) \/ Dispatch(OP_SET_LOCAL)) =>
            LET slot == Byte(Adv(VM, 1), 0)
            IN  /\ frame(VM).slot + slot < Len(value_stack)
                /\ \E i \in 1..Len(compiler.defined) : compiler.defined[i].slot = slot
    /\ \A v1, v2 \in Literals :
            (source = LocalsSource(v1, v2) /\ pc = "run" /\ result # "none") =>
                /\ result = "Ok"
                /\ Printed = <<v1.shown, v2.shown, v1.shown, v2.shown>>
\* C8: the block with a = 1 and b = "s" has run to the end and printed what
\* its locals held
C8_LocalsRead ==
    /\ \E v1, v2 \in Literals :
            v1.text = "1" /\ v2.shown = "s" /\ source = LocalsSource(v1, v2)
    /\ result = "Ok"
    /\ Printed = <<"1", "s", "1", "s">>

\* run() is about to execute the global instruction op with a string constant
\* as its name operand
AtGlobal(op) ==
    /\ Dispatch(op)
    /\ CanReadConstant(Adv(VM, 1))
    /\ Constant(Adv(VM, 1)).t = "String"
GlobalName == Constant(Adv(VM, 1)).s
\* this step reports a runtime error and makes run() return RuntimeError
ReportsErrorAndStops ==
    /\ result' = "RuntimeError"
    /\ Len(stdout') = Len(stdout) + 1
    /\ stdout'[Len(stdout')].kind = "runtime_error"

\* C11: GET_GLOBAL or SET_GLOBAL on a name that is not in the globals map
\* reports a runtime error, makes run() return RuntimeError and leaves the
\* globals map and the value stack as they were (SET_GLOBAL creates no
\* global); SET_GLOBAL on a name that is in the map stores the top of the
\* stack under it, changes no other global, leaves the value stack as it was
\* and run() goes on; GET_GLOBAL on such a name pushes its value.
C11_UndefinedGlobal ==
    [][/\ ((AtGlobal(OP_GET_GLOBAL) \/ AtGlobal(OP_SET_GLOBAL))
                /\ GlobalName \notin DOMAIN globals) =>
            /\ ReportsErrorAndStops
            /\ globals' = globals
            /\ value_stack' = value_stack
       /\ (AtGlobal(OP_SET_GLOBAL) /\ GlobalName \in DOMAIN globals) =>
            /\ result' = "none"
            /\ value_stack' = value_stack
            /\ globals' = [globals EXCEPT ![GlobalName] = value_stack[Len(value_stack)]]
       /\ (AtGlobal(OP_GET_GLOBAL) /\ GlobalName \in DOMAIN globals) =>
            /\ result' = "none"
            /\ value_stack' = Append(value_stack, globals[GlobalName])
            /\ globals' = globals]_vars
\* C11: SET_GLOBAL of the undefined name a has been refused, and a is still
\* no global
C11_SetRefused ==
    /\ source = OperandScript(Number(1), String("a"), <<OP_SET_GLOBAL, 1>>)
    /\ result = "RuntimeError"
    /\ stdout[Len(stdout)].kind = "runtime_error"
    /\ "a" \notin DOMAIN globals
    /\ value_stack[Len(value_stack)] = String("a")

\* the decimal texts of 0 .. n - 1
CountTo(n) == [k \in 1..n |-> IntToStr(k - 1)]
\* interpret() has returned
Returned == result # "none"

\* C12: a for loop runs its initializer once, then condition, body and
\* increment in that order, and leaves at the first falsey condition without
\* running the body or the increment again.  The example prints 3; the loop
\* `for (i = 0; i < n; i = i + 1) { print i; s = s + i; }` prints 0 .. n - 1
\* and leaves i = n and s = 0 + .. + (n - 1), for n = 0 as well; with
\* `var i = 0` as the initializer the counter is a local and the global i
\* keeps its value 9.
C12_ForLoop ==
    /\ (source = ForExample /\ Returned) => result = "Ok" /\ Printed = <<"3">>
    /\ \A n \in 0..MaxIter :
        /\ (source = ForSource("", n) /\ Returned) =>
                /\ result = "Ok"
                /\ Printed = CountTo(n) \o <<IntToStr(n), IntToStr((n * (n - 1)) \div 2)>>
        /\ (source = ForSource("var ", n) /\ Returned) =>
                /\ result = "Ok"
                /\ Printed = CountTo(n) \o <<"9", IntToStr((n * (n - 1)) \div 2)>>
\* C12: the loop to 3 over the global i has run to the end
C12_Looped ==
    /\ source = ForSource("", 3)
    /\ result = "Ok"
    /\ Printed = <<"0", "1", "2", "3", "3">>

\* compile() has returned the script
ScriptCompiled == pc \in {"compiled", "run"}
\* CONSTANT i
Load(i) == <<OP_CONSTANT, i>>
\* what an arithmetic operator makes of two numbers
Arith(text, a, b) ==
    CASE text = "+" -> NumAdd(a, b)
      [] text = "-" -> NumSub(a, b)
      [] text = "*" -> NumMul(a, b)
      [] text = "/" -> NumDiv(a, b)
Arithmetic == {"+", "-", "*", "/"}

\* C13: for `print 1 op1 2 op2 3;` the constants of the chunk are 1, 2, 3 in
\* source order; if op2 is of a higher level than op1 the code is 1, 2, 3,
\* op2, op1 (op2 binds tighter) and otherwise 1, 2, op1, 3, op2 (left to
\* right, also for operators of the same level); with arithmetic operators
\* the value printed is that of the same grouping.  `1 + 2 * 3` prints 7 and
\* `1 - 2 - 3` prints -4.
C13_PrecedenceClimbing ==
    \A op1, op2 \in BinaryOps :
        LET tighter == op2.precedence > op1.precedence
            one == Number(1)
            two == Number(2)
            three == Number(3)
        IN  /\ (source = BinarySource(op1, op2) /\ ScriptCompiled) =>
                /\ compiler.function.chunk.constants = <<one, two, three>>
                /\ compiler.function.chunk.code =
                        (IF tighter
                         THEN Load(0) \o Load(1) \o Load(2) \o op2.code \o op1.code
                         ELSE Load(0) \o Load(1) \o op1.code \o Load(2) \o op2.code)
                            \o <<OP_PRINT, OP_RETURN>>
            /\ (source = BinarySource(op1, op2) /\ Returned
                    /\ op1.text \in Arithmetic /\ op2.text \in Arithmetic) =>
                /\ result = "Ok"
                /\ Printed =
                        <<FormatNumber(IF tighter
                                       THEN Arith(op1.text, one, Arith(op2.text, two, three))
                                       ELSE Arith(op2.text, Arith(op1.text, one, two), three))>>
            /\ (source = "print 1 + 2 * 3;" /\ Returned) => Printed = <<"7">>
            /\ (source = "print 1 - 2 - 3;" /\ Returned) => Printed = <<"-4">>
\* C13: `1 - 2 - 3` has been compiled to 1, 2, SUBTRACT, 3, SUBTRACT and has
\* printed -4
C13_LeftAssociative ==
    /\ source = "print 1 - 2 - 3;"
    /\ result = "Ok"
    /\ Printed = <<"-4">>
    /\ compiler.function.chunk.code =
            <<OP_CONSTANT, 0, OP_CONSTANT, 1, OP_SUBTRACT, OP_CONSTANT, 2, OP_SUBTRACT,
              OP_PRINT, OP_RETURN>>

\* run() is about to execute the two-operand instruction op with a below b on
\* top of the stack
AtBinary(op) == Dispatch(op) /\ Len(value_stack) >= 2
OperandA == value_stack[Len(value_stack) - 1]
OperandB == value_stack[Len(value_stack)]
\* the stack below the two operands
BelowOperands == SubSeq(value_stack, 1, Len(value_stack) - 2)
\* this step replaces the two operands by v and run() goes on
Leaves(v) == result' = "none" /\ value_stack' = Append(BelowOperands, v)

\* C14: ADD on a below b: two numbers leave their sum; two strings leave a
\* followed by b; a string and a number, in either order, leave the text of a
\* followed by the text of b; every other pair of variants leaves no result
\* (the operands are gone), a runtime error is reported and run() returns
\* RuntimeError.
C14_AddByVariant ==
    [][AtBinary(OP_ADD) =>
        LET a == OperandA
            b == OperandB
        IN  CASE a.t = "Number" /\ b.t = "Number" -> Leaves(NumAdd(a, b))
              [] a.t = "String" /\ b.t = "String" -> Leaves(String(a.s \o b.s))
              [] a.t = "String" /\ b.t = "Number" -> Leaves(String(a.s \o FormatNumber(b)))
              [] a.t = "Number" /\ b.t = "String" -> Leaves(String(FormatNumber(a) \o b.s))
              [] OTHER -> ReportsErrorAndStops /\ value_stack' = BelowOperands]_vars
\* C14: "a" + 2 has printed a2
C14_StringPlusNumber ==
    /\ source = OperandScript(String("a"), Number(2), <<OP_ADD>>)
    /\ result = "Ok"
    /\ Printed = <<"a2">>

\* the operands whose variants the specification of EQUAL names
Comparable == {v \in Operands : v.t \in {"Nil", "Boolean", "Number", "String", "Class"}}

\* C15: EQUAL on a and b leaves true if a and b are the same variant with the
\* same payload and false otherwise: the script that pushes a and b, executes
\* EQUAL and prints the result prints true exactly when a = b, for nil,
\* booleans, numbers, strings and a class.
C15_EqualByPayload ==
    \A a, b \in Comparable :
        (source = OperandScript(a, b, <<OP_EQUAL>>) /\ Returned) =>
            /\ result = "Ok"
            /\ Printed = <<IF a = b THEN "true" ELSE "false">>

\* is_falsey of the literal written a.text
FalseyLiteral(a) == a.text \in {"nil", "false"}

\* C16: in `print a and (g = 5); print g;` the assignment runs only if a is
\* truthy: then 5 is printed twice, otherwise a is printed and g is still 0;
\* in `print a or (g = 5); print g;` it runs only if a is falsey.  At each
\* PRINT exactly one value lies on the stack above the script's slot 0.
C16_ShortCircuit ==
    \A a \in LogicOperands :
        /\ (source = LogicSource(a, "and") /\ Returned) =>
                /\ result = "Ok"
                /\ Printed = (IF FalseyLiteral(a) THEN <<a.shown, "0">> ELSE <<"5", "5">>)
        /\ (source = LogicSource(a, "or") /\ Returned) =>
                /\ result = "Ok"
                /\ Printed = (IF FalseyLiteral(a) THEN <<"5", "5">> ELSE <<a.shown, "0">>)
        /\ (source \in {LogicSource(a, "and"), LogicSource(a, "or")} /\ Dispatch(OP_PRINT)) =>
                Len(value_stack) = 2
\* C16: `nil or (g = 5)` has run its right operand and `print g` printed 5
C16_OrRanRight ==
    /\ \E a \in LogicOperands : a.text = "nil" /\ source = LogicSource(a, "or")
    /\ result = "Ok"
    /\ Printed = <<"5", "5">>

\* the compile error `message` has been reported
CompileError(message) ==
    \E i \in 1..Len(stdout) :
        stdout[i].kind = "compile_error" /\ stdout[i].message = message

\* C17: "Already a variable with this name in this scope." is reported for a
\* second `var a` in the same block, and not for a `var a` in a block nested
\* in the one that declares a: that program compiles, runs and prints the
\* inner a.
C17_ShadowingAccepted ==
    /\ (source = RedeclareSource /\ Returned) =>
            /\ result = "CompileError"
            /\ CompileError("Already a variable with this name in this scope.")
    /\ (source = ShadowSource /\ Returned) =>
            /\ ~CompileError("Already a variable with this name in this scope.")
            /\ result = "Ok"
            /\ Printed = <<"2">>

\* C18: `var a = a;` is a compile error at the top level, in a block and in
\* a function body: the error is reported, compile() returns no function and
\* interpret() returns CompileError.
C18_OwnInitializer ==
    (source \in OwnInitializerSources /\ Returned) =>
        /\ CompileError("Can't read local variable in its own initializer")
        /\ ~IsSome(compile_result(compiler))
        /\ result = "CompileError"

\* C19: an `=` left over after an expression parsed with can_assign is
\* reported as "Invalid assignment target.": so for `a + b = c;`, `1 = 2;`
\* and `(a) = 1;`.
C19_InvalidTarget ==
    (source \in BadTargetSources /\ Returned) =>
        /\ result = "CompileError"
        /\ CompileError("Invalid assignment target.")

\* C20: a block of the script that brings the locals in scope to 256 (slot 0
\* and 255 declared) or fewer compiles: no panic, no compile error, and
\* local_count grows by one with every declaration, never falling back to 0.
C20_LocalLimit ==
    source \in ManyLocalsSources =>
        /\ result # "Panic"
        /\ ~CompileErrorReported
        /\ pc = "block" => compiler.local_count >= 1 /\ ~compiler.panicked

\* C21: a function with 255 parameters compiles: compile() does not panic,
\* reports nothing and returns a script whose function constant has arity
\* 255.
C21_ParameterLimit ==
    source = ParametersSource(U8 - 1) =>
        /\ result # "Panic"
        /\ ~CompileErrorReported
        /\ pc = "compiled" =>
                /\ compile_result(compiler) # None
                /\ compiler.function.chunk.constants[2].arity = U8 - 1

\* the operand of the CONSTANT instruction of the i-th print statement (from
\* 0) of a script of print statements: each is CONSTANT k, PRINT
ConstantOperand(i) == compiler.function.chunk.code[3 * i + 2]

\* C22: in the script compiled from `print 0; ... print n-1;` the operand of
\* the i-th CONSTANT is the index i of its constant in the table, and a
\* script that needs more than 256 constants is reported and not returned.
C22_ConstantIndex ==
    source \in ManyConstantsSources /\ pc = "compiled" =>
        LET constants == compiler.function.chunk.constants
        IN  IF Len(constants) <= U8
            THEN /\ compile_result(compiler) # None
                 /\ \A i \in 0..(Len(constants) - 1) :
                        constants[i + 1] = Number(i) /\ ConstantOperand(i) = i
            ELSE CompileErrorReported /\ compile_result(compiler) = None

\* the two-byte operand at offset k of the code of chunk
ShortAt(chunk, k) == chunk.code[k + 1] * 256 + chunk.code[k + 2]

\* C23: the if that jumps over 65,535 bytes compiles without an error and its
\* JUMP_IF_FALSE has the operand 65,535; a source whose jump or loop is over
\* 65,536 bytes is reported ("Too much code to jump over." for the jump) and
\* compile() returns no function for it, so no jump or loop operand that was
\* cut to 16 bits is in a function that compile() returns.
C23_JumpLimit ==
    pc = "compiled" =>
        /\ source = IfAtLimit =>
                /\ ~CompileErrorReported
                /\ compile_result(compiler) # None
                /\ ShortAt(compiler.function.chunk, 2) = U16_MAX
        /\ source \in {IfOverLimit, NestedIfOverLimit} =>
                /\ CompileError("Too much code to jump over.")
                /\ compile_result(compiler) = None
        /\ source = WhileOverLimit =>
                /\ CompileErrorReported
                /\ compile_result(compiler) = None

\* C24: no call of scan_token fails, whatever the source is: the scanner of the
\* compiler never panics, also when the source ends in `/` or in digits and `.`
C24_ScanTokenTotal == pc # "start" => ~compiler.scanner.panicked

\* the instruction that run() is about to execute finds every value it pops
\* or peeks on the stack, and the slot of a GET_LOCAL or SET_LOCAL is on it
InstructionInBounds ==
    /\ Len(value_stack) >= stack_demand(VM)
    /\ Fetched(VM) \in {OP_GET_LOCAL, OP_SET_LOCAL} =>
            /\ CanRead(Adv(VM, 1), 1)
            /\ IsSome(local_slot(Adv(VM, 1)))
            /\ InBounds(VM, Unwrap(local_slot(Adv(VM, 1))))
\* the RETURN of the script with nothing but the script's closure on the stack
FinalReturn == Fetched(VM) = OP_RETURN /\ frame_count = 1 /\ Len(value_stack) = 1

RECURSIVE open_locations(_)
open_locations(upvalue) ==
    IF ~IsSome(upvalue) THEN <<>>
    ELSE <<Unwrap(upvalue).location>> \o open_locations(Unwrap(upvalue).next)
\* the value is no closure with an upvalue that is open at slot or above
ClosedFrom(value, slot) ==
    value.t = "Closure" =>
        \A i \in 1..Len(value.upvalues) :
            IsSome(value.upvalues[i].closed) \/ value.upvalues[i].location < slot

\* C26: after the RETURN of a frame with the base slot s no node of the open
\* list has a location >= s, and no closure that a global or the stack holds
\* has an upvalue that is still open at a location >= s.
C26_ReturnClosesUpvalues ==
    [][RunReturn /\ result' = "none" =>
            LET s == frame(VM).slot
                open == open_locations(open_upvalue_head')
            IN  /\ \A i \in 1..Len(open) : open[i] < s
                /\ \A name \in DOMAIN globals' : ClosedFrom(globals'[name], s)
                /\ \A i \in 1..Len(value_stack') : ClosedFrom(value_stack'[i], s)]_vars

\* C27: CLOSE_UPVALUE closes the local on top of the stack: run() goes on, the
\* local is popped, and the open list has no node left for its location.
C27_CloseUpvalue ==
    [][RunCloseUpvalue =>
            LET top == Len(value_stack) - 1
                open == open_locations(open_upvalue_head')
            IN  /\ result' = "none"
                /\ value_stack' = SubSeq(value_stack, 1, top)
                /\ \A i \in 1..Len(open) : open[i] # top]_vars

\* C28: GET_UPVALUE pushes the value of the captured variable: the value in
\* the stack slot of the cell while the cell is open, the value the cell owns
\* once it is closed, and never an Upvalue.
C28_GetUpvaluePushesValue ==
    [][RunGetUpvalue /\ result' = "none" =>
            LET upvalue == frame(VM).closure.upvalues[Byte(Adv(VM, 1), 0) + 1]
                pushed == value_stack'[Len(value_stack')]
            IN  /\ Len(value_stack') = Len(value_stack) + 1
                /\ pushed.t # "Upvalue"
                /\ pushed = IF IsSome(upvalue.closed) THEN Unwrap(upvalue.closed)
                            ELSE value_stack[upvalue.location + 1]]_vars

\* C29: after a CLOSURE the open list has a node for the location of every
\* open cell of the closure it pushed, wherever that location lies among the
\* locations the list had, and every location the list had is still on it.
C29_CaptureLinks ==
    [][RunClosure /\ result' = "none" =>
            LET old == open_locations(open_upvalue_head)
                new == open_locations(open_upvalue_head')
                closure == value_stack'[Len(value_stack')]
            IN  /\ \A i \in 1..Len(old) : \E j \in 1..Len(new) : new[j] = old[i]
                /\ \A k \in 1..Len(closure.upvalues) :
                        ~IsSome(closure.upvalues[k].closed) =>
                            \E j \in 1..Len(new) : new[j] = closure.upvalues[k].location]_vars

\* C30: the locations of the open list, from its head on, are strictly
\* descending, so no two nodes have the same location.
C30_OpenListDescending ==
    LET open == open_locations(open_upvalue_head)
    IN  \A i \in 1..Len(open) - 1 : open[i] > open[i + 1]

\* a closure has captured three locals one after the other and each has its
\* node on the list
C30_ThreeNodes == open_locations(open_upvalue_head) = <<3, 2, 1>>

\* a RETURN that leaves a frame: run() goes on in the caller
ReturnsToCaller == RunReturn /\ result' = "none" /\ frame_count' >= 1

\* C31 as stated: after a RETURN to a surviving caller the size of the value
\* stack is the base slot of the caller's frame plus one.
C31_SizeIsCallerSlotPlusOne ==
    [][ReturnsToCaller => Len(value_stack') = frames'[frame_count'].slot + 1]_vars

\* C31, amended: after a RETURN to a surviving caller the size of the value
\* stack is the base slot of the frame that returned plus one: the callee and
\* all above it are gone, the stack below is as it was, and the value that
\* RETURN popped is on top.
C31_ReturnTruncates ==
    [][ReturnsToCaller =>
            LET slot == frame(VM).slot
                returned == value_stack[Len(value_stack)]
                top == value_stack'[Len(value_stack')]
            IN  /\ Len(value_stack') = slot + 1
                /\ SubSeq(value_stack', 1, slot) = SubSeq(value_stack, 1, slot)
                /\ top.t = returned.t
                /\ returned.t # "Closure" => top = returned
                /\ frame_count' = frame_count - 1]_vars

\* a function called with two arguments has returned to the script
C31_ReturnedOverArguments ==
    /\ frame_count = 1 /\ result = "none" /\ Len(value_stack) = 2
    /\ \E arity \in 0..MaxArgs : source = ArityScript(arity, 2)
    /\ frames[2].slot = 1 /\ frames[2].ip = Len(frames[2].closure.function.chunk.code)

\* a CALL whose callee, arg_count below the top, is a class
CallsClass ==
    /\ RunCall
    /\ CanRead(Adv(VM, 1), 1)
    /\ CanPeek(VM, Byte(VM, 1))
    /\ peek(VM, Byte(VM, 1)).t = "Class"

\* C32: a CALL of a class with arg_count arguments leaves one value in the
\* place of the callee and the arguments: the stack is arg_count shorter, on top
\* is an instance created by this call, of the class called and without fields,
\* and no frame is pushed.
C32_ClassCallLeavesInstance ==
    [][CallsClass =>
            LET arg_count == Byte(VM, 1)
                top == value_stack'[Len(value_stack')]
            IN  /\ Len(value_stack') = Len(value_stack) - arg_count
                /\ top.t = "Instance"
                /\ top.id \notin 1..Len(instances)
                /\ top.id \in 1..Len(instances')
                /\ instances'[top.id].class = peek(VM, arg_count)
                /\ DOMAIN instances'[top.id].fields = {}
                /\ frame_count' = frame_count]_vars

\* C33: GET_LOCAL and SET_LOCAL address the stack at the frame's slot plus the
\* operand, as a sum that is neither reduced modulo 256 nor an overflow: when
\* that index is on the stack GET_LOCAL pushes the value there and SET_LOCAL
\* stores the top there, leaving the stack as long as it was, and no other
\* index is read or written.
C33_LocalsAddressFrameSlot ==
    [][(RunGetLocal \/ RunSetLocal) /\ CanRead(Adv(VM, 1), 1) =>
            LET index == frame(VM).slot + Byte(VM, 1)
            IN  IF index < Len(value_stack)
                THEN /\ result' # "Panic"
                     /\ RunGetLocal =>
                            value_stack' = Append(value_stack, value_stack[index + 1])
                     /\ RunSetLocal =>
                            value_stack' = [value_stack EXCEPT
                                                ![index + 1] = value_stack[Len(value_stack)]]
                ELSE result' = "Panic"]_vars

\* the compiler c after n more bytes of code
emit_filler(c, n) ==
    [c EXCEPT !.function.chunk.code = @ \o [i \in 1..n |-> OP_NIL],
              !.function.chunk.lines = @ \o [i \in 1..n |-> 1]]
\* the offset run() is at after one iteration that starts at offset ip of the
\* function, with false on top of the stack
ip_after(fn, ip) ==
    LET v0 == push(interpret(NewVM, Some(fn)), Boolean(FALSE))
        v1 == Execute([v0 EXCEPT !.frames[1].ip = ip], 0)
    IN  IF v1.result = "none" /\ v1.frame_count = 1 THEN v1.frames[1].ip ELSE -1
\* emit_jump in the compiler c, n bytes of code and patch_jump: the operand is
\* the distance, high byte first, and the jump taken ends at the end of the
\* code that patch_jump found
JumpRoundTrip(c, instruction, n) ==
    LET c1 == emit_jump(c, instruction)
        offset == jump_offset(c1)
        c2 == emit_filler(c1, n)
        c3 == patch_jump(c2, offset)
        code == c3.function.chunk.code
    IN  /\ c3.parser.had_error = c.parser.had_error
        /\ code[offset + 1] = n \div 256 /\ code[offset + 2] = n % 256
        /\ ip_after(c3.function, offset - 1) = code_len(c2)
\* n bytes of code after loop_start and emit_loop(loop_start): the LOOP ends
\* at loop_start
LoopRoundTrip(c, loop_start, n) ==
    LET c2 == emit_filler(c, n)
        c3 == emit_loop(c2, loop_start)
        offset == code_len(c2) + 3 - loop_start
        code == c3.function.chunk.code
    IN  offset <= U16_MAX =>
            /\ c3.parser.had_error = c.parser.had_error
            /\ code[code_len(c2) + 2] = offset \div 256
            /\ code[code_len(c2) + 3] = offset % 256
            /\ ip_after(c3.function, code_len(c2)) = loop_start

\* the distances jumped over, up to the largest the operand holds
Distances == {0, 1, U8 - 1, U8, U8 + 1}
\* C34: the compiler writes and run() reads a jump's operand the same way,
\* as a 16-bit value with the high byte first: in every compiler reached, a
\* forward jump patched with a distance of at most 65,535 bytes takes ip to the
\* end of the code at the time of patch_jump, and the LOOP of
\* emit_loop(loop_start) takes ip to loop_start.
C34_JumpRoundTrip ==
    pc \in {"compile", "block", "compiled"} /\ ~compiler.panicked =>
        \A n \in Distances \cup (IF pc = "compiled" THEN {U16_MAX} ELSE {}) :
            /\ \A instruction \in {OP_JUMP, OP_JUMP_IF_FALSE} :
                    JumpRoundTrip(compiler, instruction, n)
            /\ LoopRoundTrip(compiler, code_len(compiler), n)
            /\ LoopRoundTrip(compiler, 0, n)
            /\ n >= 3 => LoopRoundTrip(compiler, code_len(compiler), n - 3)

\* a while loop is compiled, its JUMP_IF_FALSE patched and its LOOP emitted,
\* and longest jumps follow it in the same chunk
C34_LoopCompiled ==
    /\ pc = "compiled" /\ ~compiler.parser.had_error
    /\ \E k \in 1..code_len(compiler) : compiler.function.chunk.code[k] = OP_LOOP
    /\ JumpRoundTrip(compiler, OP_JUMP, U16_MAX)
    /\ LoopRoundTrip(compiler, code_len(compiler), U16_MAX - 3)

\* run() is about to fetch the RETURN that ends the script
AtFinalReturn ==
    /\ pc = "run" /\ result = "none" /\ frame_count = 1
    /\ frames[1].ip = Len(frames[1].closure.function.chunk.code) - 1
    /\ Fetched(VM) = OP_RETURN

\* C35: if, if/else, while and for statements leave the stack as high as they
\* found it, whichever way their conditions go: a script of statements is at
\* its final RETURN with the script's closure alone on the stack, and an endless
\* for loop is at its LOOP with that height at every iteration.
C35_ControlFlowStackNeutral ==
    /\ AtFinalReturn => Len(value_stack) = 1
    /\ pc = "run" /\ result = "none" /\ source = ForeverSource /\ CanFetch(VM)
            /\ Fetched(VM) = OP_LOOP
        => Len(value_stack) = 1

\* a script with an if/else in a while loop among its statements is at its end
C35_LoopWithBranchesDone ==
    /\ AtFinalReturn
    /\ source = "var i = 0; while (i < 2) { if (i < 1) print i; else print 9; i = i + 1; }"
    /\ stdout = <<PrintLine("0"), PrintLine("9")>>

\* the compiler c after `{` and k declarations of a local in the new scope
RECURSIVE with_new_locals(_, _)
with_new_locals(c, k) ==
    IF k = 0 THEN begin_scope(c)
    ELSE mark_initialized(add_local(with_new_locals(c, k - 1), c.parser.previous))
\* what end_scope has done when it took the compiler c to the compiler d
EndScopeDone(c, d) ==
    LET popped == c.local_count - d.local_count
        outer == {i \in 1..c.local_count :
                    /\ IsSome(c.locals[i].depth)
                    /\ Unwrap(c.locals[i].depth) <= d.scope_depth}
    IN  /\ ~d.panicked
        /\ d.scope_depth = c.scope_depth - 1
        /\ \A i \in 1..d.local_count :
                IsSome(d.locals[i].depth) /\ Unwrap(d.locals[i].depth) <= d.scope_depth
        /\ popped >= 0
        /\ d.function.chunk.code = c.function.chunk.code \o [i \in 1..popped |-> OP_POP]
        /\ d.local_count = Cardinality(outer)
        /\ \A i \in 1..d.local_count : d.locals[i] = c.locals[i]

\* the most locals declared in a scope opened on top of a reached compiler
MaxNewLocals == 2
\* C36: end_scope leaves no local deeper than the scope it returns to, emits as
\* many POPs as it removes locals and leaves the locals of the enclosing scopes
\* as they were: so for the scope of the block being compiled, and for a scope
\* opened at any point of the script or of a block with up to MaxNewLocals
\* locals of its own.
C36_EndScope ==
    pc \in {"compile", "block"} /\ ~compiler.panicked =>
        /\ pc = "block" => EndScopeDone(compiler, end_scope(compiler))
        /\ \A k \in 0..MaxNewLocals :
                LET c == with_new_locals(compiler, k)
                IN  ~c.panicked /\ c.local_count >= compiler.local_count =>
                        /\ EndScopeDone(c, end_scope(c))
                        /\ end_scope(c).local_count = compiler.local_count

\* the block of two locals and an inner block has ended: its two POPs are the
\* last code and only slot 0 is left
C36_BlockEnded ==
    /\ pc = "compile" /\ source \in LocalsSources /\ check(compiler, "Eof")
    /\ compiler.local_count = 1 /\ compiler.scope_depth = 0
    /\ code_len(compiler) >= 3
    /\ SubSeq(compiler.function.chunk.code, code_len(compiler) - 2, code_len(compiler))
            = <<OP_PRINT, OP_POP, OP_POP>>

\* the diagnostics among what has been printed
Diagnostics(out) == {i \in 1..Len(out) : out[i].kind = "compile_error"}
\* an error has been reported, by the compiler of the script or by the one it
\* has made for a function, and synchronize() has not been called since
InPanicMode ==
    \/ compiler.parser.panic_mode
    \/ IsSome(compiler.pending) /\ Unwrap(compiler.pending).compiler.parser.panic_mode

\* C37: from the report of one compile error to the next synchronize() no other
\* diagnostic is reported, whichever compiler takes the tokens in between: the
\* steps of a function declaration up to its body, in which synchronize() is
\* not called, report one diagnostic at most, and none after one was reported.
C37_OneDiagnosticUntilSynchronize ==
    [][BeginFunction \/ Parameter =>
            Cardinality(Diagnostics(stdout')) <=
                Cardinality(Diagnostics(stdout)) + (IF InPanicMode THEN 0 ELSE 1)]_vars

InCompile == pc \in {"compile", "block", "params", "body"}
\* the compiler that takes the tokens: the one made for a function while there
\* is one
ActiveCompiler ==
    IF IsSome(compiler.pending) THEN Unwrap(compiler.pending).compiler ELSE compiler
\* the input from the current token on; none at Eof
Remaining ==
    LET c == ActiveCompiler
    IN  IF c.parser.current.token_type = "Eof" THEN 0
        ELSE Len(c.scanner.source) - c.parser.current.start
\* the loops still to leave: the parameter loop, the body of a function or a
\* block, the loop of compile()
Rank ==
    CASE pc = "params" -> 3
      [] pc \in {"body", "block"} -> 2
      [] pc = "compile" -> 1
      [] OTHER -> 0

\* C39: compile() terminates on every source.  Every step of it (an iteration
\* of the loop of compile(), of a block or of a parameter list, the begin or
\* the end of a block or function) takes at least one token, or finds no token
\* left to take and leaves the loop it is in, or panics, so compile() returns
\* or panics.
C39_CompileTerminates ==
    /\ [][InCompile =>
                \/ Remaining' < Remaining
                \/ Remaining' = Remaining /\ Rank' < Rank
                \/ ~compiler.panicked /\ compiler'.panicked]_vars
    /\ <>(pc \notin {"start", "compile", "block", "params", "body"})

\* compile() has returned for a source with an unexpected character and a
\* comment: the Error token was reported and passed
C39_ErrorTokenPassed ==
    /\ pc = "compiled" /\ source = "// comment\nprint 1; @ print 2;"
    /\ compiler.parser.had_error
    /\ compiler.parser.current.token_type = "Eof"

\* every notification has been taken and every handler has finished
HandlersFinished ==
    /\ inbox = <<>> /\ handlers # <<>>
    /\ \A h \in 1..Len(handlers) : handlers[h].at = "done"
\* the text of the last notification received
LastText == handlers[Len(handlers)].text

\* C40: when the handlers of all the notifications for the document have
\* finished, the analysis stored for it, which documentSymbol serves, and the
\* diagnostics published last are those of the text of the last notification,
\* however the handlers were interleaved.
C40_LastNotificationWins ==
    HandlersFinished =>
        /\ Uri \in DOMAIN docs
        /\ docs[Uri] = analyze_text(LastText)
        /\ published[Len(published)].diagnostics = analyze_text(LastText).diagnostics

====
